---------------------------- MODULE Spec2Model ----------------------------
(***************************************************************************)
(* Model of the simulation core of the platformer in src/app.py: the       *)
(* player controller (Player.update and its helpers), the Goomba and       *)
(* mushroom actors, and the session (Game.reset, Game.update with its      *)
(* callbacks destroy_gate and hit_block).                                  *)
(*                                                                         *)
(* Numbers.  The program computes with floats; the model uses fixed point: *)
(*   time          milliseconds            (0.12 s   -> 120)               *)
(*   velocity      1/100 px/s      (S)     (360 px/s -> 36000)             *)
(*   acceleration  1/100 px/s^2    (S)                                     *)
(*   position      1/100000 px     (PU)    (so that x += vx*dt is exact)   *)
(*   multipliers   percent                 (1.35     -> 135)               *)
(* pygame.Rect holds integer pixels, as in the program (int() truncates).  *)
(* A product that is not a whole number of units is truncated toward zero. *)
(* Rendering state that nothing reads back (particles, trail, visual_tilt, *)
(* power_flash, camera, toast, best_time) is left out.                     *)
(***************************************************************************)
EXTENDS Integers, Sequences, FiniteSets, TLC

(***************************** scales ***************************************)
S  == 100
PU == 100000

(***************************** program constants ****************************)
TILE == 48
GRAVITY == 2500
MAX_FALL == 1600
ACCEL == 4200
AIR_ACCEL == 2600
FRICTION == 2800
MAX_SPEED == 360
JUMP_VEL == -900
JUMP_CUT == 42
COYOTE_TIME == 120
JUMP_BUFFER == 120
DASH_SPEED == 1150
DASH_TIME == 140
DASH_COOLDOWN == 1100
INVINCIBLE_ON_DASH == 120
SPRINT_SPEED_MULT == 135
SPRINT_ACCEL_MULT == 125
SPRINT_JUMP_MULT == 115
SKID_TIME == 180
SKID_ACCEL_MULT == 25
SKID_FRICTION_MULT == 110
CROUCH_SPEED_MULT == 55
CROUCH_ACCEL_MULT == 60
H_STAND == 52
H_CROUCH == 34
H_STAND_BIG == 70
H_CROUCH_BIG == 46
CROUCH_SLIDE_TIME_BASE == 280
CROUCH_SLIDE_DECEL_BASE == 5200
CROUCH_SLIDE_MIN_DIST == 90
PLAYER_W == 36
GOOMBA_SIZE == 42
GOOMBA_SPEED == 110
GOOMBA_SQUISH_H == 18
GOOMBA_SQUISH_TIME == 350
MUSHROOM_SIZE == 40
MUSHROOM_SPEED == 160
MUSHROOM_EMERGE_SPEED == 180
VOID_MARGIN == 200
START_COL == 3
SINCE_GROUND_CAP == 10000
SINCE_GROUND_JUMPED == 999000
VY_MIN == -9999
MOVING_DIR_MIN == 20
STOMP_SLACK == 6
KNOCK_VEL == 280
KNOCK_SHIFT == 8
INV_ON_POWERUP == 400
INV_ON_DAMAGE == 1200
DAMAGE_KNOCK_VY == -260

(***************************** arithmetic ***********************************)
Abs(a) == IF a < 0 THEN -a ELSE a
Min(a, b) == IF a < b THEN a ELSE b
Max(a, b) == IF a > b THEN a ELSE b
\* division truncating toward zero (int(), C integer division, and the
\* rounding of a product to the fixed-point unit)
TDiv(a, b) == IF a >= 0 THEN a \div b ELSE -((-a) \div b)
Pct(v, m) == TDiv(v * m, 100)
clamp(v, a, b) == IF v < a THEN a ELSE IF v > b THEN b ELSE v
\* math.copysign(m, v) for m >= 0: v = 0 counts as positive
copysign(m, v) == IF v < 0 THEN -m ELSE m

SKID_TRIGGER_SPEED == Pct(Pct(MAX_SPEED * S, SPRINT_SPEED_MULT), 60)
CROUCH_SLIDE_TRIGGER_SPEED == Pct(Pct(MAX_SPEED * S, SPRINT_SPEED_MULT), 65)

(***************************** rectangles ***********************************)
\* pygame.Rect(left, top, w, h), integer pixels
Rect(l, t, w, h) == [l |-> l, t |-> t, w |-> w, h |-> h]
Right(r) == r.l + r.w
Bottom(r) == r.t + r.h
inflate(r, dx, dy) == Rect(r.l - TDiv(dx, 2), r.t - TDiv(dy, 2), r.w + dx, r.h + dy)
colliderect(a, b) ==
    /\ a.l < b.l + b.w
    /\ b.l < a.l + a.w
    /\ a.t < b.t + b.h
    /\ b.t < a.t + a.h
TileRect(tx, ty) == Rect(tx * TILE, ty * TILE, TILE, TILE)
\* Rect(int(x - w/2), int(y - h), w, h) of an actor standing at (x, y)
ActorRect(x, y, w, h) == Rect(TDiv(x - (w * PU) \div 2, PU), TDiv(y - h * PU, PU), w, h)

(***************************** tile grid ************************************)
\* the grid is a sequence of rows (top first), a row a sequence of
\* one-character strings; tile (tx, ty) is grid[ty + 1][tx + 1]
Cell(grid, tx, ty) == grid[ty + 1][tx + 1]
SetCell(grid, tx, ty, ch) == [grid EXCEPT ![ty + 1][tx + 1] = ch]
GridW(grid) == Len(grid[1])
GridH(grid) == Len(grid)
\* the elements of a sequence
Range(seq) == {seq[i] : i \in 1..Len(seq)}

tiles_in_aabb(tilemap, rect) ==
    LET tile(tx, ty) == <<tx, ty, Cell(tilemap, tx, ty)>>
        \* the nx * ny tiles from (min_tx, min_ty) on, row by row
        range(min_tx, min_ty, nx, ny) ==
            [k \in 1..(IF nx <= 0 \/ ny <= 0 THEN 0 ELSE nx * ny) |->
                tile(min_tx + ((k - 1) % nx), min_ty + ((k - 1) \div nx))]
        span(min_tx, max_tx, min_ty, max_ty) ==
            range(min_tx, min_ty, max_tx - min_tx + 1, max_ty - min_ty + 1)
    IN  SelectSeq(span(Max(0, rect.l \div TILE),
                       Min(GridW(tilemap) - 1, Right(rect) \div TILE),
                       Max(0, rect.t \div TILE),
                       Min(GridH(tilemap) - 1, Bottom(rect) \div TILE)),
                  LAMBDA t : t[3] # " ")

solid(ch) == ch \in {"X", "=", "B", "S", "Q"}
\* the codes _can_stand and _rect_fits treat as blocking
blocking(ch) == ch \in {"|", "^", "F"} \/ solid(ch)


(***************************** Player ***************************************)
NewPlayer(x, y) ==
    [x |-> x, y |-> y, h_stand |-> H_STAND, h_crouch |-> H_CROUCH, h |-> H_STAND,
     form |-> "small", vx |-> 0, vy |-> 0, on_ground |-> FALSE, since_ground |-> 0,
     jump_buf |-> 0, facing |-> 1, dash_t |-> 0, dash_cd |-> 0, inv |-> 0,
     dash_dir |-> 0, sprint |-> FALSE, crouch |-> FALSE, dash_lock |-> FALSE,
     dash_unlocked |-> FALSE, skid_t |-> 0, skid_dir |-> 0, crouch_slide_t |-> 0,
     crouch_slide_decel |-> CROUCH_SLIDE_DECEL_BASE * S, crouch_slide_dir |-> 0,
     coins |-> 0]

PlayerRect(p) == ActorRect(p.x, p.y, PLAYER_W, p.h)
\* the player's rect if its height were `height`
PlayerRectH(p, height) == ActorRect(p.x, p.y, PLAYER_W, height)

_rect_fits(p, tilemap, height) ==
    LET free(rect, t) == ~(blocking(t[3]) /\ colliderect(rect, TileRect(t[1], t[2])))
        fits(rect) == \A t \in Range(tiles_in_aabb(tilemap, inflate(rect, -8, -2))) :
                          free(rect, t)
    IN  fits(PlayerRectH(p, height))

_can_stand(p, tilemap) ==
    LET free(stand_rect, t) ==
            ~(blocking(t[3]) /\ colliderect(stand_rect, TileRect(t[1], t[2])))
        fits(stand_rect) ==
            \A t \in Range(tiles_in_aabb(tilemap, inflate(stand_rect, -8, -2))) :
                free(stand_rect, t)
    IN  fits(PlayerRectH(p, p.h_stand))

\* set_form returns [p |-> the player afterwards, ok |-> the return value]
set_form(p, form, tilemap) ==
    IF form = p.form THEN [p |-> p, ok |-> TRUE]
    ELSE IF form = "big" THEN
        LET q == [p EXCEPT !.form = "big", !.h_stand = H_STAND_BIG,
                           !.h_crouch = H_CROUCH_BIG]
            grow(can_stand) ==
                IF ~can_stand /\ ~_rect_fits(p, tilemap, H_CROUCH_BIG)
                THEN [p |-> p, ok |-> FALSE]
                ELSE IF can_stand /\ ~p.crouch
                     THEN [p |-> [q EXCEPT !.h = H_STAND_BIG], ok |-> TRUE]
                     ELSE [p |-> [q EXCEPT !.crouch = TRUE, !.h = H_CROUCH_BIG], ok |-> TRUE]
        IN  grow(_rect_fits(p, tilemap, H_STAND_BIG))
    ELSE
        \* lines 253-261: the small hitboxes, leave the crouch if it does not
        \* fit, crouch if standing does not fit, then take the height
        LET height(q3) == [q3 EXCEPT !.h = IF q3.crouch THEN q3.h_crouch ELSE q3.h_stand]
            stand(q2) == height(IF ~q2.crouch /\ ~_rect_fits(q2, tilemap, q2.h_stand)
                                THEN [q2 EXCEPT !.crouch = TRUE] ELSE q2)
            crouch(q1) == stand(IF q1.crouch /\ ~_rect_fits(q1, tilemap, q1.h_crouch)
                                THEN [q1 EXCEPT !.crouch = FALSE] ELSE q1)
        IN  [p |-> crouch([p EXCEPT !.form = "small", !.h_stand = H_STAND,
                                    !.h_crouch = H_CROUCH]),
             ok |-> TRUE]

\* collect_powerup("mushroom", ...): [p, ok |-> grew]
collect_powerup(p, tilemap) ==
    LET grown(r) ==
            IF r.ok
            THEN [p |-> [r.p EXCEPT !.inv = Max(r.p.inv, INV_ON_POWERUP)], ok |-> TRUE]
            ELSE [p |-> r.p, ok |-> FALSE]
    IN  grown(set_form(p, "big", tilemap))

\* take_damage that forgets to grant invulnerability
take_damage_no_inv(p, tilemap) ==
    IF p.inv > 0 THEN [p |-> p, lethal |-> FALSE]
    ELSE IF p.form = "big" THEN
        LET hurt(q) == [q EXCEPT !.vy = Min(q.vy, DAMAGE_KNOCK_VY * S)]
        IN  [p |-> hurt(set_form(p, "small", tilemap).p), lethal |-> FALSE]
    ELSE [p |-> p, lethal |-> TRUE]

\* take_damage: [p, lethal |-> the return value]
take_damage(p, tilemap) ==
    IF p.inv > 0 THEN [p |-> p, lethal |-> FALSE]
    ELSE IF p.form = "big" THEN
        LET hurt(q) == [q EXCEPT !.inv = Max(q.inv, INV_ON_DAMAGE),
                                 !.vy = Min(q.vy, DAMAGE_KNOCK_VY * S)]
        IN  [p |-> hurt(set_form(p, "small", tilemap).p), lethal |-> FALSE]
    ELSE [p |-> p, lethal |-> TRUE]

\* _set_crouch that sets the flag and leaves the height
_set_crouch_keeps_h(p, want_crouch, tilemap) ==
    IF want_crouch /\ ~p.crouch THEN [p EXCEPT !.crouch = TRUE]
    ELSE IF ~want_crouch /\ p.crouch THEN
        IF _can_stand(p, tilemap) THEN [p EXCEPT !.h = p.h_stand, !.crouch = FALSE]
        ELSE p
    ELSE p

_set_crouch(p, want_crouch, tilemap) ==
    IF want_crouch /\ ~p.crouch THEN [p EXCEPT !.h = p.h_crouch, !.crouch = TRUE]
    ELSE IF ~want_crouch /\ p.crouch THEN
        IF _can_stand(p, tilemap) THEN [p EXCEPT !.h = p.h_stand, !.crouch = FALSE]
        ELSE p
    ELSE p

\* try_jump that forgets to clear the grounded flag
try_jump_keeps_ground(p) ==
    IF (p.on_ground \/ p.since_ground <= COYOTE_TIME) /\ p.jump_buf > 0
    THEN [p |-> [p EXCEPT !.vy = IF p.sprint THEN Pct(JUMP_VEL * S, SPRINT_JUMP_MULT)
                                             ELSE JUMP_VEL * S,
                          !.since_ground = SINCE_GROUND_JUMPED, !.jump_buf = 0],
          ok |-> TRUE]
    ELSE [p |-> p, ok |-> FALSE]

\* try_jump that leaves the coyote window open
try_jump_keeps_coyote(p) ==
    IF (p.on_ground \/ p.since_ground <= COYOTE_TIME) /\ p.jump_buf > 0
    THEN [p |-> [p EXCEPT !.vy = IF p.sprint THEN Pct(JUMP_VEL * S, SPRINT_JUMP_MULT)
                                             ELSE JUMP_VEL * S,
                          !.on_ground = FALSE, !.jump_buf = 0],
          ok |-> TRUE]
    ELSE [p |-> p, ok |-> FALSE]

\* try_jump: [p, ok |-> the return value]
try_jump(p) ==
    IF (p.on_ground \/ p.since_ground <= COYOTE_TIME) /\ p.jump_buf > 0
    THEN [p |-> [p EXCEPT !.vy = IF p.sprint THEN Pct(JUMP_VEL * S, SPRINT_JUMP_MULT)
                                             ELSE JUMP_VEL * S,
                          !.on_ground = FALSE, !.since_ground = SINCE_GROUND_JUMPED,
                          !.jump_buf = 0],
          ok |-> TRUE]
    ELSE [p |-> p, ok |-> FALSE]

start_dash(p) ==
    LET dir == IF p.facing # 0 THEN p.facing ELSE 1
    IN  [p EXCEPT !.dash_t = DASH_TIME, !.dash_cd = DASH_COOLDOWN,
                  !.inv = INVINCIBLE_ON_DASH, !.dash_dir = dir,
                  !.vx = dir * DASH_SPEED * S,
                  !.vy = IF p.vy > 0 THEN 0 ELSE p.vy,
                  !.sprint = FALSE]

(***************************** Game callbacks ********************************)
\* the part of the session the callbacks change, threaded through
\* Player.update: [p, tilemap, items, coins_got]
\* calls: the hit_block calls of the running Player.update, each with the
\* world before and after it
World(p, tilemap, its, cg) ==
    [p |-> p, tilemap |-> tilemap, items |-> its, coins_got |-> cg, calls |-> <<>>]

NewMushroom(x, block_top, direction) ==
    [x |-> x, y |-> block_top + MUSHROOM_SIZE * PU, target_y |-> block_top,
     vx |-> 0, vy |-> 0, direction |-> IF direction >= 0 THEN 1 ELSE -1,
     state |-> "emerging", remove |-> FALSE]

destroy_gate_to_ground(tilemap, tx, ty) ==
    IF Cell(tilemap, tx, ty) = "|" THEN SetCell(tilemap, tx, ty, "X") ELSE tilemap

destroy_gate(tilemap, tx, ty) ==
    IF Cell(tilemap, tx, ty) = "|" THEN SetCell(tilemap, tx, ty, " ") ELSE tilemap

\* hit_block without the test of the cell's code
hit_block_any_code(w, tx, ty, ch) ==
    IF ty < 0 \/ ty >= GridH(w.tilemap) THEN w
    ELSE IF tx < 0 \/ tx >= GridW(w.tilemap) THEN w
    ELSE IF ch = "B" THEN
        [w EXCEPT !.tilemap = SetCell(w.tilemap, tx, ty, "X"),
                  !.items = Append(w.items,
                      NewMushroom(tx * TILE * PU + (TILE * PU) \div 2, ty * TILE * PU,
                                  IF w.p.x >= tx * TILE * PU + (TILE * PU) \div 2
                                  THEN -1 ELSE 1))]
    ELSE IF ch = "Q" THEN
        [w EXCEPT !.tilemap = SetCell(w.tilemap, tx, ty, "X"),
                  !.coins_got = w.coins_got + 1, !.p.coins = w.p.coins + 1]
    ELSE IF ch = "S" THEN
        IF w.p.form # "big" THEN w
        ELSE [w EXCEPT !.tilemap = SetCell(w.tilemap, tx, ty, " ")]
    ELSE w

hit_block_any_form(w, tx, ty, ch) ==
    IF ty < 0 \/ ty >= GridH(w.tilemap) THEN w
    ELSE IF tx < 0 \/ tx >= GridW(w.tilemap) THEN w
    ELSE IF Cell(w.tilemap, tx, ty) # ch THEN w
    ELSE LET spawn_x == tx * TILE * PU + (TILE * PU) \div 2
             block_top == ty * TILE * PU
         IN  IF ch = "B" THEN
                 [w EXCEPT !.tilemap = SetCell(w.tilemap, tx, ty, "X"),
                           !.items = Append(w.items,
                               NewMushroom(spawn_x, block_top,
                                           IF w.p.x >= spawn_x THEN -1 ELSE 1))]
             ELSE IF ch = "Q" THEN
                 [w EXCEPT !.tilemap = SetCell(w.tilemap, tx, ty, "X"),
                           !.coins_got = w.coins_got + 1,
                           !.p.coins = w.p.coins + 1]
             ELSE IF ch = "S" THEN
                 [w EXCEPT !.tilemap = SetCell(w.tilemap, tx, ty, " ")]
             ELSE w

hit_block_toward_player(w, tx, ty, ch) ==
    IF ty < 0 \/ ty >= GridH(w.tilemap) THEN w
    ELSE IF tx < 0 \/ tx >= GridW(w.tilemap) THEN w
    ELSE IF Cell(w.tilemap, tx, ty) # ch THEN w
    ELSE LET spawn_x == tx * TILE * PU + (TILE * PU) \div 2
             block_top == ty * TILE * PU
         IN  IF ch = "B" THEN
                 [w EXCEPT !.tilemap = SetCell(w.tilemap, tx, ty, "X"),
                           !.items = Append(w.items,
                               NewMushroom(spawn_x, block_top,
                                           IF w.p.x >= spawn_x THEN 1 ELSE -1))]
             ELSE IF ch = "Q" THEN
                 [w EXCEPT !.tilemap = SetCell(w.tilemap, tx, ty, "X"),
                           !.coins_got = w.coins_got + 1,
                           !.p.coins = w.p.coins + 1]
             ELSE IF ch = "S" THEN
                 IF w.p.form # "big" THEN w
                 ELSE [w EXCEPT !.tilemap = SetCell(w.tilemap, tx, ty, " ")]
             ELSE w

hit_block_coin_kept(w, tx, ty, ch) ==
    IF ty < 0 \/ ty >= GridH(w.tilemap) THEN w
    ELSE IF tx < 0 \/ tx >= GridW(w.tilemap) THEN w
    ELSE IF Cell(w.tilemap, tx, ty) # ch THEN w
    ELSE LET spawn_x == tx * TILE * PU + (TILE * PU) \div 2
             block_top == ty * TILE * PU
         IN  IF ch = "B" THEN
                 [w EXCEPT !.tilemap = SetCell(w.tilemap, tx, ty, "X"),
                           !.items = Append(w.items,
                               NewMushroom(spawn_x, block_top,
                                           IF w.p.x >= spawn_x THEN -1 ELSE 1))]
             ELSE IF ch = "Q" THEN
                 [w EXCEPT !.coins_got = w.coins_got + 1,
                           !.p.coins = w.p.coins + 1]
             ELSE IF ch = "S" THEN
                 IF w.p.form # "big" THEN w
                 ELSE [w EXCEPT !.tilemap = SetCell(w.tilemap, tx, ty, " ")]
             ELSE w

hit_block(w, tx, ty, ch) ==
    IF ty < 0 \/ ty >= GridH(w.tilemap) THEN w
    ELSE IF tx < 0 \/ tx >= GridW(w.tilemap) THEN w
    ELSE IF Cell(w.tilemap, tx, ty) # ch THEN w
    ELSE LET spawn_x == tx * TILE * PU + (TILE * PU) \div 2
             block_top == ty * TILE * PU
         IN  IF ch = "B" THEN
                 [w EXCEPT !.tilemap = SetCell(w.tilemap, tx, ty, "X"),
                           !.items = Append(w.items,
                               NewMushroom(spawn_x, block_top,
                                           IF w.p.x >= spawn_x THEN -1 ELSE 1))]
             ELSE IF ch = "Q" THEN
                 [w EXCEPT !.tilemap = SetCell(w.tilemap, tx, ty, "X"),
                           !.coins_got = w.coins_got + 1,
                           !.p.coins = w.p.coins + 1]
             ELSE IF ch = "S" THEN
                 IF w.p.form # "big" THEN w
                 ELSE [w EXCEPT !.tilemap = SetCell(w.tilemap, tx, ty, " ")]
             ELSE w

\* hit_block_cb(tx, ty, ch, self) of Player.update
hit_block_cb(w, tx, ty, ch) ==
    LET logged(w1) ==
            [w1 EXCEPT !.calls = Append(w.calls,
                [tx |-> tx, ty |-> ty, ch |-> ch,
                 pre |-> [w EXCEPT !.calls = <<>>],
                 post |-> [w1 EXCEPT !.calls = <<>>]])]
    IN  logged(hit_block(w, tx, ty, ch))

(***************************** Player.update ********************************)
\* keys: [ax, shift_held, dash_pressed, jump_pressed, jump_released,
\*        crouch_held, crouch_pressed], ax in {-1, 0, 1}

\* a timer that only runs while positive
RunDown(t, dt) == IF t > 0 THEN t - dt ELSE t

PU_timers(p, dt) ==
    [p EXCEPT !.since_ground = IF p.since_ground < SINCE_GROUND_CAP
                               THEN p.since_ground + dt ELSE p.since_ground,
              !.jump_buf = RunDown(p.jump_buf, dt),
              !.dash_t = RunDown(p.dash_t, dt),
              !.dash_cd = RunDown(p.dash_cd, dt),
              !.inv = RunDown(p.inv, dt),
              !.skid_t = RunDown(p.skid_t, dt),
              !.crouch_slide_t = RunDown(p.crouch_slide_t, dt)]

input_axis(p, keys) ==
    IF keys.ax # 0 THEN [p EXCEPT !.facing = IF keys.ax > 0 THEN 1 ELSE -1] ELSE p

PU_crouch(p, keys, tilemap) ==
    LET want0 == p.dash_t <= 0 /\ keys.crouch_held
        want_crouch == IF ~want0 /\ p.crouch /\ ~_can_stand(p, tilemap) THEN TRUE ELSE want0
    IN  _set_crouch(p, want_crouch, tilemap)

\* the crouch-slide trigger; prev_crouch and prev_sprint are the flags at the
\* start of the update
SlideTriggered(p, keys, prev_crouch, prev_sprint) ==
    /\ keys.crouch_pressed
    /\ ~prev_crouch
    /\ p.crouch
    /\ p.on_ground
    /\ prev_sprint
    /\ p.dash_t <= 0
    /\ Abs(p.vx) >= CROUCH_SLIDE_TRIGGER_SPEED

\* the deceleration that is always the base value
SlideDecel_base(v0) == CROUCH_SLIDE_DECEL_BASE * S

\* a_req = v0^2 / (2 * MIN_DIST), in 1/100 px/s^2 ((v0/10)^2 avoids overflow)
SlideDecel(v0) ==
    Min(CROUCH_SLIDE_DECEL_BASE * S,
        (TDiv(v0, 10) * TDiv(v0, 10)) \div (2 * Max(1, CROUCH_SLIDE_MIN_DIST)))

\* max(TIME_BASE, t_stop), t_stop = v0 / max(1.0, decel) in ms
SlideTime(v0, decel) == Max(CROUCH_SLIDE_TIME_BASE, (1000 * v0) \div Max(1 * S, decel))

PU_slide(p, keys, prev_crouch, prev_sprint) ==
    LET v0 == Abs(p.vx)
        q == IF SlideTriggered(p, keys, prev_crouch, prev_sprint)
             THEN [p EXCEPT !.crouch_slide_decel = SlideDecel(v0),
                            !.crouch_slide_t = SlideTime(v0, SlideDecel(v0)),
                            !.crouch_slide_dir = IF p.vx >= 0 THEN 1 ELSE -1]
             ELSE p
    IN  IF q.crouch_slide_t > 0 THEN [q EXCEPT !.h = q.h_crouch, !.crouch = TRUE] ELSE q

\* the dash trigger that forgets the cooldown
DashTriggered_no_cooldown(p, keys, tilemap) ==
    /\ p.dash_unlocked
    /\ keys.dash_pressed
    /\ p.dash_t <= 0
    /\ ~p.dash_lock
    /\ ~p.crouch
    /\ _can_stand(p, tilemap)

DashTriggered(p, keys, tilemap) ==
    /\ p.dash_unlocked
    /\ keys.dash_pressed
    /\ p.dash_cd <= 0
    /\ p.dash_t <= 0
    /\ ~p.dash_lock
    /\ ~p.crouch
    /\ _can_stand(p, tilemap)

PU_dash(p, keys, tilemap) ==
    IF DashTriggered(p, keys, tilemap)
    THEN [start_dash(p) EXCEPT !.dash_lock = TRUE]
    ELSE p

\* the sprint flag that outlives the release of the sprint key
PU_sprint_sticky(p, keys) ==
    LET q == IF p.dash_t <= 0 /\ keys.shift_held /\ ~p.crouch
             THEN [p EXCEPT !.sprint = TRUE]
             ELSE IF p.crouch THEN [p EXCEPT !.sprint = FALSE]
             ELSE p
    IN  IF ~keys.shift_held THEN [q EXCEPT !.dash_lock = FALSE] ELSE q

PU_sprint(p, keys) ==
    LET q == IF p.dash_t <= 0 /\ keys.shift_held /\ ~p.crouch
             THEN [p EXCEPT !.sprint = TRUE]
             ELSE IF ~keys.shift_held \/ p.crouch THEN [p EXCEPT !.sprint = FALSE]
             ELSE p
    IN  IF ~keys.shift_held THEN [q EXCEPT !.dash_lock = FALSE] ELSE q

SkidTriggered_any_speed(p, input_dir, moving_dir) ==
    /\ p.on_ground
    /\ p.sprint
    /\ p.dash_t <= 0
    /\ input_dir # 0
    /\ moving_dir # 0
    /\ input_dir # moving_dir
    /\ p.skid_t <= 0

SkidTriggered(p, input_dir, moving_dir) ==
    /\ p.on_ground
    /\ p.sprint
    /\ p.dash_t <= 0
    /\ input_dir # 0
    /\ moving_dir # 0
    /\ input_dir # moving_dir
    /\ Abs(p.vx) >= SKID_TRIGGER_SPEED
    /\ p.skid_t <= 0

PU_skid(p, input_dir, moving_dir) ==
    IF SkidTriggered(p, input_dir, moving_dir)
    THEN [p EXCEPT !.skid_t = SKID_TIME, !.skid_dir = moving_dir, !.facing = input_dir]
    ELSE p

\* v += a * dt, a in 1/100 px/s^2, dt in ms
Dv(a, dt) == TDiv(a * dt, 1000)

PU_horizontal(p, keys, dt) ==
    IF p.dash_t > 0 THEN p
    ELSE
    LET accel_base == (IF p.on_ground THEN ACCEL ELSE AIR_ACCEL) * S
        a1 == IF p.sprint THEN Pct(accel_base, SPRINT_ACCEL_MULT) ELSE accel_base
        a2 == IF p.crouch /\ p.crouch_slide_t <= 0 THEN Pct(a1, CROUCH_ACCEL_MULT) ELSE a1
        skidding == p.skid_t > 0 /\ p.on_ground
        accel == IF skidding THEN Pct(a2, SKID_ACCEL_MULT) ELSE a2
        vx1 == IF skidding
               THEN p.vx - copysign(Dv(Pct(FRICTION * S, SKID_FRICTION_MULT), dt), p.vx)
               ELSE p.vx
        dec == Dv(p.crouch_slide_decel, dt)
        fr == Dv(FRICTION * S, dt)
        vx2 == IF p.crouch_slide_t > 0 /\ p.on_ground
               THEN (IF Abs(vx1) <= dec THEN 0 ELSE vx1 - copysign(dec, vx1))
               ELSE LET v == vx1 + Dv(accel, dt) * keys.ax
                    IN  IF keys.ax = 0 /\ p.on_ground
                        THEN (IF Abs(v) <= fr THEN 0
                              ELSE v - fr * (IF v > 0 THEN 1 ELSE -1))
                        ELSE v
    IN  [p EXCEPT !.vx = vx2]

\* the speed limit of lines 440-443 for a player that is not dashing
MaxSpeed(p) ==
    LET m1 == IF p.sprint THEN Pct(MAX_SPEED * S, SPRINT_SPEED_MULT) ELSE MAX_SPEED * S
    IN  IF p.crouch /\ p.crouch_slide_t <= 0 THEN Pct(m1, CROUCH_SPEED_MULT) ELSE m1

\* the clamp without its exemption for a dashing player
PU_clamp_always(p) == [p EXCEPT !.vx = clamp(p.vx, -MaxSpeed(p), MaxSpeed(p))]

\* the clamp that forgets the crouch throttle
PU_clamp_no_crouch(p) ==
    LET m == IF p.sprint THEN Pct(MAX_SPEED * S, SPRINT_SPEED_MULT) ELSE MAX_SPEED * S
    IN  IF p.dash_t <= 0 THEN [p EXCEPT !.vx = clamp(p.vx, -m, m)] ELSE p

PU_clamp(p) ==
    IF p.dash_t <= 0 THEN [p EXCEPT !.vx = clamp(p.vx, -MaxSpeed(p), MaxSpeed(p))] ELSE p

PU_gravity(p, keys, dt) ==
    LET vy1 == clamp(p.vy + Dv(GRAVITY * S, dt), VY_MIN * S, MAX_FALL * S)
        vy2 == IF keys.jump_released /\ vy1 < 0 THEN Pct(vy1, JUMP_CUT) ELSE vy1
    IN  [p EXCEPT !.vy = vy2,
                  !.jump_buf = IF keys.jump_pressed THEN JUMP_BUFFER ELSE p.jump_buf]

\* snap to the near edge of tile_r and stop (lines 466-468 and 471-473);
\* st = [x, vx, gate]
PSnapX(st, tile_r) ==
    [st EXCEPT !.x = IF st.vx > 0 THEN tile_r.l * PU - (PLAYER_W * PU) \div 2
                     ELSE IF st.vx < 0 THEN Right(tile_r) * PU + (PLAYER_W * PU) \div 2
                     ELSE st.x,
               !.vx = 0]

\* one tile of the horizontal loop; r is the rect taken before the loop
PTileX(st, t, r, dashing) ==
    LET tile_r == TileRect(t[1], t[2])
        st1 == IF t[3] = "|"
               THEN (IF dashing THEN [st EXCEPT !.gate = <<t[1], t[2]>>]
                     ELSE IF colliderect(r, tile_r) THEN PSnapX(st, tile_r) ELSE st)
               ELSE st
    IN  IF solid(t[3]) /\ colliderect(r, tile_r) THEN PSnapX(st1, tile_r) ELSE st1

RECURSIVE PLoopX(_, _, _, _, _)
PLoopX(st, ts, i, r, dashing) ==
    IF i > Len(ts) THEN st
    ELSE PLoopX(PTileX(st, ts[i], r, dashing), ts, i + 1, r, dashing)

\* lines 453-476: the horizontal move, its collisions, and the gate callback
PU_move_x(w, dt) ==
    LET p1 == [w.p EXCEPT !.on_ground = FALSE, !.x = w.p.x + w.p.vx * dt]
        r == PlayerRect(p1)
        st == PLoopX([x |-> p1.x, vx |-> p1.vx, gate |-> <<>>],
                     tiles_in_aabb(w.tilemap, inflate(r, 2, -2)), 1, r, p1.dash_t > 0)
    IN  [w EXCEPT !.p = [p1 EXCEPT !.x = st.x, !.vx = st.vx],
                  !.tilemap = IF st.gate # <<>>
                              THEN destroy_gate(w.tilemap, st.gate[1], st.gate[2])
                              ELSE w.tilemap]

\* the vertical move made in one step
SubSteps_one(total_dy) == 1

\* steps = max(1, int(abs(total_dy) // max(1, TILE // 6)) + 1)
SubSteps(total_dy) == Max(1, Abs(total_dy) \div (Max(1, TILE \div 6) * PU) + 1)

\* one tile of one vertical substep of the player; st = [w, r]
PTileY(st, t, prev_rect, step_dy) ==
    LET ch == t[3]
        tile_r == TileRect(t[1], t[2])
        p == st.w.p
    IN  IF ch = "|" /\ p.dash_t > 0 THEN st
        ELSE IF ~(ch = "|" \/ solid(ch)) THEN st
        ELSE IF ~colliderect(st.r, tile_r) THEN st
        ELSE IF step_dy > 0 THEN
            IF Bottom(prev_rect) <= tile_r.t /\ Bottom(st.r) >= tile_r.t
            THEN LET q == [p EXCEPT !.y = tile_r.t * PU, !.vy = 0, !.on_ground = TRUE,
                                    !.since_ground = 0]
                 IN  [w |-> [st.w EXCEPT !.p = q], r |-> PlayerRect(q)]
            ELSE st
        ELSE IF step_dy < 0 THEN
            IF prev_rect.t >= Bottom(tile_r) /\ st.r.t <= Bottom(tile_r)
            THEN LET q == [p EXCEPT !.y = (Bottom(tile_r) + p.h) * PU, !.vy = 0]
                     w1 == [st.w EXCEPT !.p = q]
                 IN  [w |-> IF ch \in {"B", "S", "Q"} THEN hit_block_cb(w1, t[1], t[2], ch)
                            ELSE w1,
                      r |-> PlayerRect(q)]
            ELSE st
        ELSE st

RECURSIVE PLoopY(_, _, _, _, _)
PLoopY(st, ts, i, prev_rect, step_dy) ==
    IF i > Len(ts) THEN st
    ELSE PLoopY(PTileY(st, ts[i], prev_rect, step_dy), ts, i + 1, prev_rect, step_dy)

\* one vertical substep (lines 489-504)
PStepY(w, step_dy) ==
    LET prev_rect == PlayerRect(w.p)
        w1 == [w EXCEPT !.p.y = w.p.y + step_dy]
        r == PlayerRect(w1.p)
    IN  PLoopY([w |-> w1, r |-> r], tiles_in_aabb(w1.tilemap, inflate(r, -8, 0)),
               1, prev_rect, step_dy).w

\* the substeps in order: each one is finished before the next begins
RECURSIVE PStepsY(_, _, _)
PStepsY(w, n, step_dy) ==
    IF n = 0 THEN w
    ELSE CHOOSE w2 \in {PStepsY(w1, n - 1, step_dy) : w1 \in {PStepY(w, step_dy)}} : TRUE

\* lines 484-504: the vertical move in substeps
PU_move_y(w, dt) ==
    LET total_dy == w.p.vy * dt
        steps == SubSteps(total_dy)
    IN  PStepsY(w, steps, TDiv(total_dy, steps))

\* Player.update(dt, keys, tilemap, particles, destroy_gate_cb, hit_block_cb)
\* on the world w; the result is the world afterwards
\* lines 331-383: the player after timers, input, crouch and slide, where the
\* dash trigger finds it
Player_input(w, dt, keys) ==
    LET p0 == w.p
        p1 == input_axis(PU_timers(p0, dt), keys)
        p2 == PU_crouch(p1, keys, w.tilemap)
    IN  PU_slide(p2, keys, p0.crouch, p0.sprint)

\* lines 331-450: the player after timers, input, crouch, slide, dash, sprint,
\* skid, horizontal acceleration, clamp and gravity, before it is moved
Player_velocity(w, dt, keys) ==
    LET p0 == w.p
        moving_dir == IF p0.vx > MOVING_DIR_MIN * S THEN 1
                      ELSE IF p0.vx < -(MOVING_DIR_MIN * S) THEN -1 ELSE 0
        p3 == Player_input(w, dt, keys)
        p4 == PU_dash(p3, keys, w.tilemap)
        p5 == PU_sprint(p4, keys)
        p6 == PU_skid(p5, keys.ax, moving_dir)
        p7 == PU_clamp(PU_horizontal(p6, keys, dt))
    IN  PU_gravity(p7, keys, dt)

Player_update(w, dt, keys) ==
    PU_move_y(PU_move_x([w EXCEPT !.p = Player_velocity(w, dt, keys)], dt), dt)

(***************************** Goomba and MushroomItem ***********************)
\* the actors' collision codes without the goal
ActorSolid_no_goal(ch) == ch = "|" \/ solid(ch)

\* both actors collide with the solid codes and with gates and the goal
ActorSolid(ch) == ch \in {"|", "F"} \/ solid(ch)

\* the horizontal loop of Goomba.update / MushroomItem.update (lines 681-693,
\* 583-597); st = [a, r, hit_wall], size the actor's width and height
RECURSIVE ALoopX(_, _, _, _)
ALoopX(st, ts, i, size) ==
    IF i > Len(ts) THEN st
    ELSE LET a == st.a
             snap(x1) == [a |-> [a EXCEPT !.x = x1],
                          r |-> ActorRect(x1, a.y, size, size),
                          hit_wall |-> TRUE]
             hit(tile_r) ==
                 IF ActorSolid(ts[i][3]) /\ colliderect(st.r, tile_r)
                 THEN snap(IF a.vx > 0 THEN tile_r.l * PU - (size * PU) \div 2
                           ELSE IF a.vx < 0 THEN Right(tile_r) * PU + (size * PU) \div 2
                           ELSE a.x)
                 ELSE st
         IN  ALoopX(hit(TileRect(ts[i][1], ts[i][2])), ts, i + 1, size)

\* the tile loop of one vertical substep (lines 705-721, 608-624); st = [a, r]
RECURSIVE ALoopY(_, _, _, _, _, _)
ALoopY(st, ts, i, prev_rect, step_dy, size) ==
    IF i > Len(ts) THEN st
    ELSE LET a == st.a
             \* the actor put at height y with vy = 0, and its rect
             rest(y) == [a |-> [a EXCEPT !.y = y, !.vy = 0],
                         r |-> ActorRect(a.x, y, size, size)]
             hit(tile_r) ==
                 IF ~ActorSolid(ts[i][3]) THEN st
                 ELSE IF ~colliderect(st.r, tile_r) THEN st
                 ELSE IF step_dy > 0 THEN
                     (IF Bottom(prev_rect) <= tile_r.t /\ Bottom(st.r) >= tile_r.t
                      THEN rest(tile_r.t * PU) ELSE st)
                 ELSE IF step_dy < 0 THEN
                     (IF prev_rect.t >= Bottom(tile_r) /\ st.r.t <= Bottom(tile_r)
                      THEN rest((Bottom(tile_r) + size) * PU) ELSE st)
                 ELSE st
         IN  ALoopY(hit(TileRect(ts[i][1], ts[i][2])), ts, i + 1, prev_rect, step_dy, size)

RECURSIVE AStepsY(_, _, _, _, _)
AStepsY(a, n, step_dy, tilemap, size) ==
    IF n = 0 THEN a
    ELSE LET prev_rect == ActorRect(a.x, a.y, size, size)
             a1 == [a EXCEPT !.y = a.y + step_dy]
             step(r) == ALoopY([a |-> a1, r |-> r], tiles_in_aabb(tilemap, r), 1,
                               prev_rect, step_dy, size).a
         IN  CHOOSE a3 \in {AStepsY(a2, n - 1, step_dy, tilemap, size) :
                             a2 \in {step(ActorRect(a1.x, a1.y, size, size))}} : TRUE

\* gravity, the horizontal move with wall bounce, the vertical substeps and
\* the fall out of the level, shared by both actors
ActorMove(a, dt, tilemap, size) ==
    LET void(a3) == IF a3.y > (GridH(tilemap) * TILE + VOID_MARGIN) * PU
                    THEN [a3 EXCEPT !.remove = TRUE] ELSE a3
        substeps(a2, total_dy, steps) ==
            void(AStepsY(a2, steps, TDiv(total_dy, steps), tilemap, size))
        move_y(a2) == substeps(a2, a2.vy * dt, SubSteps(a2.vy * dt))
        bounce(st) == move_y(IF st.hit_wall THEN [st.a EXCEPT !.vx = -st.a.vx] ELSE st.a)
        move_x(a1, r) == bounce(ALoopX([a |-> a1, r |-> r, hit_wall |-> FALSE],
                                       tiles_in_aabb(tilemap, inflate(r, 2, -4)), 1, size))
        gravity(a1) == move_x(a1, ActorRect(a1.x, a1.y, size, size))
    IN  gravity([a EXCEPT !.vy = clamp(a.vy + Dv(GRAVITY * S, dt), VY_MIN * S, MAX_FALL * S),
                          !.x = a.x + a.vx * dt])

NewGoomba(x, y, dir) ==
    [x |-> x, y |-> y, vx |-> dir * GOOMBA_SPEED * S, vy |-> 0,
     facing |-> IF dir >= 0 THEN 1 ELSE -1, alive |-> TRUE, remove |-> FALSE,
     squish_timer |-> 0]

current_height(e) == IF e.alive THEN GOOMBA_SIZE ELSE GOOMBA_SQUISH_H
GoombaRect(e) == ActorRect(e.x, e.y, GOOMBA_SIZE, current_height(e))

\* the update that leaves a squished Goomba's timer alone
Goomba_update_frozen(e, dt, tilemap) ==
    IF e.remove \/ ~e.alive THEN e
    ELSE LET face(a) == IF a.vx # e.vx
                        THEN [a EXCEPT !.facing = IF a.vx >= 0 THEN 1 ELSE -1] ELSE a
         IN  face(ActorMove(e, dt, tilemap, GOOMBA_SIZE))

Goomba_update(e, dt, tilemap) ==
    IF e.remove THEN e
    ELSE IF ~e.alive THEN
        LET t == e.squish_timer - dt
        IN  [e EXCEPT !.squish_timer = t, !.remove = (t <= 0)]
    ELSE LET face(a) == IF a.vx # e.vx
                        THEN [a EXCEPT !.facing = IF a.vx >= 0 THEN 1 ELSE -1] ELSE a
         IN  face(ActorMove(e, dt, tilemap, GOOMBA_SIZE))

\* squish that leaves the enemy alive
squish_keeps_alive(e) ==
    IF ~e.alive \/ e.remove THEN e
    ELSE [e EXCEPT !.vx = 0, !.vy = 0, !.squish_timer = GOOMBA_SQUISH_TIME]

squish(e) ==
    IF ~e.alive \/ e.remove THEN e
    ELSE [e EXCEPT !.alive = FALSE, !.vx = 0, !.vy = 0,
                   !.squish_timer = GOOMBA_SQUISH_TIME]

\* the dash hit that leaves the enemy in the game
hit_by_dash_spares(e) == e

hit_by_dash(e) == IF e.remove THEN e ELSE [e EXCEPT !.remove = TRUE]

MushroomRect(m) == ActorRect(m.x, m.y, MUSHROOM_SIZE, MUSHROOM_SIZE)

MushroomItem_update(m, dt, tilemap) ==
    IF m.remove THEN m
    ELSE IF m.state = "emerging" THEN
        LET y1 == m.y - MUSHROOM_EMERGE_SPEED * S * dt
        IN  IF y1 <= m.target_y
            THEN [m EXCEPT !.y = m.target_y, !.state = "active",
                           !.vx = m.direction * MUSHROOM_SPEED * S]
            ELSE [m EXCEPT !.y = y1]
    ELSE ActorMove(m, dt, tilemap, MUSHROOM_SIZE)

(***************************** observation helpers ***************************)
\* whether some blocking tile of the grid geometrically overlaps rect
\* (a scan of the whole grid, independent of tiles_in_aabb)
Overlaps(tilemap, rect) ==
    \E ty \in 0..(GridH(tilemap) - 1) : \E tx \in 0..(GridW(tilemap) - 1) :
        blocking(Cell(tilemap, tx, ty)) /\ colliderect(rect, TileRect(tx, ty))

\* a record of one call take_damage(p)
DmgCall(p, tilemap) ==
    LET call(r) == [pre |-> p, post |-> r.p, lethal |-> r.lethal]
    IN  call(take_damage(p, tilemap))

\* a record of one call set_form("big") made by collect_powerup on player p
FormCall(p, tilemap) ==
    LET call(r) == [pre |-> p, post |-> r.p, ok |-> r.ok,
                    stand_hit |-> Overlaps(tilemap, PlayerRectH(p, H_STAND_BIG)),
                    crouch_hit |-> Overlaps(tilemap, PlayerRectH(p, H_CROUCH_BIG))]
    IN  call(set_form(p, "big", tilemap))

(***************************** Game.update, in order *************************)
\* lines 915-916
Items_update(its, dt, tilemap) ==
    [i \in 1..Len(its) |-> MushroomItem_update(its[i], dt, tilemap)]

\* lines 918-938: st = [p, items, sf]; player_rect is taken once, before the loop
RECURSIVE PickupLoop(_, _, _, _)
PickupLoop(st, i, player_rect, tilemap) ==
    IF i > Len(st.items) THEN st
    ELSE LET it == st.items[i]
             st1 == IF it.remove \/ it.state # "active" THEN st
                    ELSE IF ~colliderect(player_rect, MushroomRect(it)) THEN st
                    ELSE [p |-> collect_powerup(st.p, tilemap).p,
                          items |-> [st.items EXCEPT ![i].remove = TRUE],
                          sf |-> IF st.p.form = "small"
                                 THEN Append(st.sf, FormCall(st.p, tilemap)) ELSE st.sf]
         IN  PickupLoop(st1, i + 1, player_rect, tilemap)

\* lines 940-941
Enemies_update(es, dt, tilemap) ==
    [i \in 1..Len(es) |-> Goomba_update(es[i], dt, tilemap)]

\* lines 954-985 for the pair (i, j) of live enemies
SeparatePair(es, i, j, rect_a) ==
    LET a == es[i]
        b == es[j]
        face(e) == [e EXCEPT !.facing = IF e.vx >= 0 THEN 1 ELSE -1]
        \* the two enemies pushed apart by half the overlap each
        push(horizontal, hx, hy) ==
            [es EXCEPT
               ![i] = face(IF horizontal
                           THEN (IF a.x < b.x THEN [a EXCEPT !.x = a.x - hx, !.vx = -Abs(a.vx)]
                                 ELSE [a EXCEPT !.x = a.x + hx, !.vx = Abs(a.vx)])
                           ELSE (IF a.y < b.y THEN [a EXCEPT !.y = a.y - hy]
                                 ELSE [a EXCEPT !.y = a.y + hy])),
               ![j] = face(IF horizontal
                           THEN (IF a.x < b.x THEN [b EXCEPT !.x = b.x + hx, !.vx = Abs(b.vx)]
                                 ELSE [b EXCEPT !.x = b.x - hx, !.vx = -Abs(b.vx)])
                           ELSE (IF a.y < b.y THEN [b EXCEPT !.y = b.y + hy]
                                 ELSE [b EXCEPT !.y = b.y - hy]))]
        resolve(rect_b, overlap_x, overlap_y) ==
            IF ~colliderect(rect_a, rect_b) \/ overlap_x <= 0 \/ overlap_y <= 0 THEN es
            ELSE push(overlap_x <= overlap_y, (overlap_x * PU) \div 2, (overlap_y * PU) \div 2)
        overlap(rect_b) ==
            resolve(rect_b,
                    Min(Right(rect_a), Right(rect_b)) - Max(rect_a.l, rect_b.l),
                    Min(Bottom(rect_a), Bottom(rect_b)) - Max(rect_a.t, rect_b.t))
    IN  overlap(GoombaRect(b))

\* the inner loop over j; rect_a is refreshed only after a resolved collision
RECURSIVE SeparateInner(_, _, _, _)
SeparateInner(es, i, j, rect_a) ==
    IF j > Len(es) THEN es
    ELSE IF es[j].remove \/ ~es[j].alive THEN SeparateInner(es, i, j + 1, rect_a)
    ELSE LET next(es1) ==
                 SeparateInner(es1, i, j + 1, IF es1 # es THEN GoombaRect(es1[i]) ELSE rect_a)
         IN  next(SeparatePair(es, i, j, rect_a))

\* lines 944-985
RECURSIVE SeparateEnemies(_, _)
SeparateEnemies(es, i) ==
    IF i > Len(es) THEN es
    ELSE IF es[i].remove \/ ~es[i].alive THEN SeparateEnemies(es, i + 1)
    ELSE SeparateEnemies(SeparateInner(es, i, i + 1, GoombaRect(es[i])), i + 1)

\* lines 994-998
StompCond(p, prev_player_rect, er) ==
    /\ Bottom(prev_player_rect) <= er.t + STOMP_SLACK
    /\ p.vy >= 0
    /\ p.y >= Bottom(prev_player_rect) * PU

\* lines 987-1021: st = [p, enemies, state, r, done, dmg, knocked, hits]; hits
\* records every contact handled: the rects r and er, the stomp condition,
\* the player, enemy i, the session state and the number of take_damage calls
\* before and after it
RECURSIVE ContactLoop(_, _, _, _)
ContactLoop(st, i, prev_player_rect, tilemap) ==
    IF i > Len(st.enemies) \/ st.done THEN st
    ELSE LET e == st.enemies[i]
             p == st.p
             stomped(q) == [st EXCEPT !.enemies[i] = squish(e), !.p = q,
                                      !.r = PlayerRect(q)]
             knocked(d, q) == [st EXCEPT !.p = q, !.r = PlayerRect(q),
                                         !.dmg = Append(st.dmg, d), !.knocked = TRUE]
             knock_back(d, knock) ==
                 knocked(d, [d.post EXCEPT !.vx = KNOCK_VEL * S * knock,
                                           !.vy = -(KNOCK_VEL * S),
                                           !.x = d.post.x + knock * KNOCK_SHIFT * PU])
             hurt(d) ==
                 IF d.lethal
                 THEN [st EXCEPT !.state = "DEAD", !.done = TRUE, !.dmg = Append(st.dmg, d)]
                 ELSE knock_back(d, IF d.post.x >= e.x THEN 1 ELSE -1)
             handled(er) ==
                 IF StompCond(p, prev_player_rect, er) THEN
                     stomped([p EXCEPT !.vy = Pct(JUMP_VEL * S, 55), !.on_ground = FALSE,
                                       !.since_ground = SINCE_GROUND_JUMPED,
                                       !.y = er.t * PU])
                 ELSE IF p.dash_t > 0 THEN [st EXCEPT !.enemies[i] = hit_by_dash(e)]
                 ELSE IF p.inv > 0 THEN st
                 ELSE hurt(DmgCall(p, tilemap))
             logged(er, st1) ==
                 [st1 EXCEPT !.hits = Append(st.hits,
                     [r |-> st.r, er |-> er,
                      stomp |-> StompCond(p, prev_player_rect, er),
                      pre |-> p, post |-> st1.p, e |-> e, e1 |-> st1.enemies[i],
                      state0 |-> st.state, state1 |-> st1.state,
                      ndmg0 |-> Len(st.dmg), ndmg1 |-> Len(st1.dmg)])]
             contact(er) ==
                 IF e.remove \/ ~e.alive THEN st
                 ELSE IF ~colliderect(st.r, er) THEN st
                 ELSE logged(er, handled(er))
         IN  ContactLoop(contact(GoombaRect(e)), i + 1, prev_player_rect, tilemap)

\* lines 1025-1056: st = [p, tilemap, coins_got, state, done, dmg, sf, core];
\* r is the player's rect taken before the loop
RECURSIVE TileLoop(_, _, _, _)
TileLoop(st, ts, i, r) ==
    IF i > Len(ts) \/ st.done THEN st
    ELSE LET tx == ts[i][1]
             ty == ts[i][2]
             ch == ts[i][3]
             hit == colliderect(r, TileRect(tx, ty))
             hurt(d) == [st EXCEPT !.p = d.post, !.dmg = Append(st.dmg, d),
                                   !.state = IF d.lethal THEN "DEAD" ELSE st.state]
             st1 == IF ch = "C" THEN
                        [st EXCEPT !.tilemap = SetCell(st.tilemap, tx, ty, " "),
                                   !.coins_got = st.coins_got + 1,
                                   !.p.coins = st.p.coins + 1]
                    ELSE IF ch = "D" THEN
                        [st EXCEPT !.tilemap = SetCell(st.tilemap, tx, ty, " "),
                                   !.p.dash_unlocked = TRUE, !.core = TRUE]
                    ELSE IF ch = "M" THEN
                        [st EXCEPT !.tilemap = SetCell(st.tilemap, tx, ty, " "),
                                   !.p = collect_powerup(st.p, st.tilemap).p,
                                   !.sf = IF st.p.form = "small"
                                          THEN Append(st.sf, FormCall(st.p, st.tilemap))
                                          ELSE st.sf]
                    ELSE IF ch = "^" /\ hit THEN hurt(DmgCall(st.p, st.tilemap))
                    ELSE IF ch = "F" /\ hit THEN
                        [st EXCEPT !.state = "WIN", !.done = TRUE]
                    ELSE st
         IN  TileLoop(st1, ts, i + 1, r)

(***************************** levels and input ******************************)
\* bounds of the sessions explored
ShortRun == 6       \* frames of a short session
MidRun == 16        \* frames of a middle session
LongRun == 40       \* frames of a long session
StompRun == 32      \* frames of a session with a stomp and the 0.35 s after it
MaxChanges == 3     \* frames whose held keys differ from the frame before

Blank(n) == [i \in 1..n |-> " "]
Floor(n) == [i \in 1..n |-> "X"]
\* a blank row of n cells with code ch at column tx (0-based)
Row1(n, tx, ch) == [i \in 1..n |-> IF i = tx + 1 THEN ch ELSE " "]
Row2(n, tx, ch, ux, dh) ==
    [i \in 1..n |-> IF i = tx + 1 THEN ch ELSE IF i = ux + 1 THEN dh ELSE " "]

\* the levels (LEVEL, loaded once at start-up); the player starts in column
\* START_COL on the top of the last row
LevelFlat == <<Blank(12), Blank(12), Blank(12), Floor(12)>>
LevelGoal == <<Blank(6), Row1(6, 3, "F"), Row1(6, 3, "G"), Floor(6)>>
LevelCore == <<Blank(12), Blank(12), Row2(12, 3, "D", 9, "X"), Floor(12)>>
LevelGrow == <<Blank(8), Blank(8), Row2(8, 3, "M", 5, "G"), Floor(8)>>
LevelLow == <<Blank(8), Row1(8, 4, "X"), Blank(8), Floor(8)>>
LevelNook ==
    <<Blank(8),
      <<" ", " ", "^", " ", "^", " ", " ", " ">>,
      <<" ", " ", " ", "M", "M", " ", " ", " ">>,
      Floor(8)>>
LevelSpike == <<Blank(8), Blank(8), Row1(8, 4, "^"), Floor(8)>>
\* a dash-core at the start and a gate two tiles high, as in the default level
LevelGate == <<Blank(10), Row1(10, 5, "|"), Row2(10, 3, "D", 5, "|"), Floor(10)>>
\* a wall one sprint of three frames to the right of the start
LevelWall == <<Blank(8), Blank(8), Row1(8, 5, "X"), Floor(8)>>
\* a breakable block over the start, an item-block and a coin-block to its
\* right, a mushroom and a coin on the way
LevelBlocks ==
    <<Blank(8),
      <<" ", " ", " ", "S", "B", "Q", " ", " ">>,
      Blank(8),
      <<" ", " ", " ", " ", "M", " ", "C", " ">>,
      Floor(8)>>
\* a mushroom tile in the start cell between two Goombas, a gate behind the
\* left Goomba and the goal behind the right one
LevelPinch ==
    <<Blank(7), Blank(7), <<" ", "|", "G", "M", "G", "F", " ">>, Floor(7)>>
\* a dash-core in the start cell and a Goomba two cells to its right
LevelDash == <<Blank(8), Blank(8), Row2(8, 3, "D", 5, "G"), Floor(8)>>
\* an item-block over the start, the goal and a gate over its two neighbours
LevelBounce ==
    <<Row2(7, 2, "F", 4, "|"), Row1(7, 3, "B"), Blank(7), Blank(7), Floor(7)>>
\* a Goomba in the air, up and left of a Goomba on the floor
LevelStack == <<Blank(7), Row1(7, 4, "G"), Row1(7, 5, "G"), Floor(7)>>
\* a mushroom over the dash core of the start cell
LevelBoost == <<Blank(7), Row1(7, 3, "M"), Row1(7, 3, "D"), Floor(7)>>
\* two Goombas on the floor in neighbouring cells
LevelPair == <<Blank(7), Blank(7), Row2(7, 4, "G", 5, "G"), Floor(7)>>

\* a session: its level, the key combinations its player uses (L, R: left and
\* right, J: SPACE, S: LSHIFT, C: down), its frame times in ms and its length
Scenarios ==
    <<[rows |-> LevelFlat, chords |-> {{}, {"R", "S"}, {"C"}}, dts |-> {17, 33},
       frames |-> MidRun],
      [rows |-> LevelGoal, chords |-> {{}, {"J"}}, dts |-> {33}, frames |-> ShortRun],
      [rows |-> LevelCore, chords |-> {{}, {"S"}}, dts |-> {17, 33}, frames |-> LongRun],
      [rows |-> LevelFlat, chords |-> {{}, {"J"}}, dts |-> {33}, frames |-> MidRun],
      [rows |-> LevelGrow, chords |-> {{}, {"J"}}, dts |-> {33}, frames |-> StompRun],
      [rows |-> LevelLow, chords |-> {{}, {"R"}, {"R", "C"}}, dts |-> {17, 33},
       frames |-> ShortRun],
      [rows |-> LevelNook, chords |-> {{}, {"L"}, {"R"}}, dts |-> {33},
       frames |-> MidRun],
      [rows |-> LevelSpike, chords |-> {{}, {"R"}}, dts |-> {33}, frames |-> ShortRun],
      [rows |-> LevelGate, chords |-> {{}, {"R"}, {"S"}}, dts |-> {17, 33},
       frames |-> MidRun],
      [rows |-> LevelWall, chords |-> {{}, {"R", "S"}, {"L", "S"}}, dts |-> {33},
       frames |-> MidRun],
      [rows |-> LevelBlocks, chords |-> {{}, {"J"}, {"R"}}, dts |-> {33},
       frames |-> MidRun],
      [rows |-> LevelCore, chords |-> {{}, {"J"}, {"S"}}, dts |-> {33},
       frames |-> MidRun],
      [rows |-> LevelPinch, chords |-> {{}}, dts |-> {33}, frames |-> MidRun],
      [rows |-> LevelDash, chords |-> {{}, {"S"}}, dts |-> {33}, frames |-> ShortRun],
      [rows |-> LevelBounce, chords |-> {{}, {"J"}}, dts |-> {33}, frames |-> MidRun],
      [rows |-> LevelStack, chords |-> {{}}, dts |-> {17, 33}, frames |-> MidRun],
      [rows |-> LevelPair, chords |-> {{}}, dts |-> {33}, frames |-> ShortRun],
      [rows |-> LevelBoost, chords |-> {{}, {"S"}, {"C"}}, dts |-> {33},
       frames |-> ShortRun]>>

(***************************** level_io.py ***********************************)
\* a text is a sequence of one-character strings, a level a sequence of texts
\* (its rows), a text file the sequence of its lines, a directory a function
\* from paths to files. None and the empty list, which this code tells apart
\* only by their truth value, are both <<>>.
DEFAULT_LEVEL_FILE ==
    <<"c", "u", "s", "t", "o", "m", "_", "l", "e", "v", "e", "l", ".", "j", "s", "o", "n">>

\* the level built by make_default_level: each entry of writes is one row
\* segment <<code, y, first x, last x>> in the order the code assigns it, a
\* later one overwriting an earlier one
make_default_level ==
    LET writes ==
            <<<<"X", 13, 0, 179>>, <<"=", 11, 6, 13>>, <<"G", 10, 10, 10>>,
              <<"M", 10, 7, 7>>, <<"=", 9, 18, 27>>, <<"G", 8, 22, 22>>,
              <<"M", 7, 24, 24>>, <<" ", 13, 34, 36>>, <<"^", 12, 42, 42>>,
              <<"=", 9, 44, 49>>, <<"C", 8, 44, 49>>, <<"=", 10, 52, 55>>,
              <<"=", 8, 58, 61>>, <<"C", 7, 58, 61>>, <<"=", 11, 68, 71>>,
              <<"=", 10, 76, 79>>, <<"G", 12, 78, 78>>, <<"=", 11, 94, 101>>,
              <<"D", 10, 98, 98>>, <<"=", 10, 122, 131>>, <<"=", 12, 118, 121>>,
              <<"|", 12, 128, 128>>, <<"|", 11, 128, 128>>, <<"=", 11, 130, 135>>,
              <<"C", 10, 130, 135>>, <<"M", 10, 124, 124>>, <<" ", 13, 144, 151>>,
              <<"=", 12, 138, 141>>, <<"=", 12, 152, 157>>, <<"C", 10, 154, 156>>,
              <<"^", 12, 160, 161>>, <<"=", 9, 164, 168>>, <<"C", 8, 165, 168>>,
              <<"F", 9, 172, 172>>, <<"X", 10, 172, 172>>, <<"X", 11, 172, 172>>,
              <<"X", 12, 172, 172>>, <<"X", 13, 172, 172>>>>
        on(x, y) == {k \in 1..Len(writes) :
                        writes[k][2] = y /\ writes[k][3] <= x /\ x <= writes[k][4]}
        last_of(s) == CHOOSE k \in s : \A j \in s : j <= k
        cell(x, y) == IF on(x, y) = {} THEN " " ELSE writes[last_of(on(x, y))][1]
    IN  [y \in 1..14 |-> [x \in 1..180 |-> cell(x - 1, y - 1)]]

\* str.lower on the letters the paths of PathSet use
lower(s) ==
    [i \in 1..Len(s) |->
        CASE s[i] = "J" -> "j" [] s[i] = "S" -> "s" [] s[i] = "O" -> "o"
          [] s[i] = "N" -> "n" [] s[i] = "A" -> "a" [] OTHER -> s[i]]

endswith(s, suffix) ==
    Len(s) >= Len(suffix) /\ SubSeq(s, Len(s) - Len(suffix) + 1, Len(s)) = suffix

_normalise_rows(rows) ==
    LET width == CHOOSE n \in {Len(rows[i]) : i \in 1..Len(rows)} :
                    \A i \in 1..Len(rows) : Len(rows[i]) <= n
        ljust(row) == row \o [i \in 1..(width - Len(row)) |-> " "]
    IN  IF rows = <<>> THEN <<>>
        ELSE IF width = 0 THEN <<>>
        ELSE [i \in 1..Len(rows) |-> ljust(rows[i])]

\* the escapes json.dump(..., ensure_ascii=False) writes for the characters
\* of SaveGrids: a backslash before a quote and before a backslash
RECURSIVE json_escape(_)
json_escape(s) ==
    IF s = <<>> THEN <<>>
    ELSE (IF s[1] \in {"\"", "\\"} THEN <<"\\", s[1]>> ELSE <<s[1]>>)
            \o json_escape(Tail(s))

RECURSIVE json_unescape(_)
json_unescape(s) ==
    IF s = <<>> THEN <<>>
    ELSE IF s[1] = "\\" /\ Len(s) >= 2
         THEN <<s[2]>> \o json_unescape(SubSeq(s, 3, Len(s)))
         ELSE <<s[1]>> \o json_unescape(Tail(s))

\* the lines json.dump({"tiles": rows}, f, ensure_ascii=False, indent=2) writes
json_dump(rows) ==
    LET item(i) == <<" ", " ", " ", " ", "\"">> \o json_escape(rows[i]) \o <<"\"">>
                    \o (IF i < Len(rows) THEN <<",">> ELSE <<>>)
    IN  <<<<"{">>, <<" ", " ", "\"", "t", "i", "l", "e", "s", "\"", ":", " ", "[">>>>
            \o [i \in 1..Len(rows) |-> item(i)]
            \o <<<<" ", " ", "]">>, <<"}">>>>

\* json.load on a file of the layout json_dump writes: [ok, tiles]; any other
\* file is a JSONDecodeError here (ok = FALSE)
json_load(lines) ==
    LET n == Len(lines) - 4
        quoted(l, i) ==
            /\ Len(l) >= (IF i < n THEN 7 ELSE 6)
            /\ SubSeq(l, 1, 5) = <<" ", " ", " ", " ", "\"">>
            /\ IF i < n THEN SubSeq(l, Len(l) - 1, Len(l)) = <<"\"", ",">>
               ELSE l[Len(l)] = "\""
        inner(l, i) == SubSeq(l, 6, Len(l) - (IF i < n THEN 2 ELSE 1))
        well_formed ==
            /\ n >= 1
            /\ lines[1] = <<"{">>
            /\ lines[2] = <<" ", " ", "\"", "t", "i", "l", "e", "s", "\"", ":", " ", "[">>
            /\ lines[n + 3] = <<" ", " ", "]">>
            /\ lines[n + 4] = <<"}">>
            /\ \A i \in 1..n : quoted(lines[i + 2], i)
    IN  IF well_formed
        THEN [ok |-> TRUE, tiles |-> [i \in 1..n |-> json_unescape(inner(lines[i + 2], i))]]
        ELSE [ok |-> FALSE, tiles |-> <<>>]

\* fs: the directory; a path outside its domain is an OSError
_load_level_file(path, fs) ==
    IF path \notin DOMAIN fs THEN <<>>
    ELSE IF endswith(lower(path), <<".", "j", "s", "o", "n">>)
         THEN LET parsed(data) == IF data.ok THEN _normalise_rows(data.tiles) ELSE <<>>
              IN  parsed(json_load(fs[path]))
         ELSE _normalise_rows(fs[path])

\* env_path: os.environ.get("PLATFORMER_LEVEL_FILE"), <<>> when unset
load_level(path, env_path, fs) ==
    LET c1 == IF path # <<>> THEN <<path>> ELSE <<>>
        c2 == IF env_path # <<>> THEN Append(c1, env_path) ELSE c1
        candidates == IF DEFAULT_LEVEL_FILE \notin Range(c2)
                      THEN Append(c2, DEFAULT_LEVEL_FILE) ELSE c2
        loaded == SelectSeq([i \in 1..Len(candidates) |->
                                _load_level_file(candidates[i], fs)],
                            LAMBDA level : level # <<>>)
    IN  IF loaded # <<>> THEN loaded[1] ELSE make_default_level

\* the directory after save_level(level, path)
save_level(level, path, fs) ==
    LET rows == IF _normalise_rows(level) # <<>> THEN _normalise_rows(level)
                ELSE make_default_level
    IN  [p \in DOMAIN fs \cup {path} |-> IF p = path THEN json_dump(rows) ELSE fs[p]]

(***************************** state *****************************************)
VARIABLES
    tilemap,          \* Game.tilemap
    player,           \* Game.player
    enemies,          \* Game.enemies
    items,            \* Game.items
    coins_total,      \* Game.coins_total
    coins_got,        \* Game.coins_got
    time,             \* Game.time (ms)
    state,            \* Game.state: "RUN", "DEAD", "WIN"
    last,             \* [jp, sh, cr]: Game._jp_last, _sh_last, _cr_last
    pc,               \* the position inside Game.update
    keys,             \* the keys dict of the running Game.update
    prev_player_rect, \* the local of that name of Game.update
    scen,             \* the index of the session's level in Scenarios
    dt,               \* the frame time of the session (ms)
    kb,               \* the keys held down
    ticks,            \* Game.update calls so far
    changes,          \* frames whose held keys differ from the frame before
    obs,              \* observations of the running tick and session (see ObsInit)
    call              \* a call of a function outside a session (see NoCall)

vars == <<tilemap, player, enemies, items, coins_total, coins_got, time, state, last,
          pc, keys, prev_player_rect, scen, dt, kb, ticks, changes, obs, call>>

\* a call: the function, its arguments (grid and rect of tiles_in_aabb; grid,
\* path, the environment's level path and the directory of save_level and
\* load_level), whether it has returned, and what it returned
NoCall ==
    [fn |-> "none", grid |-> <<>>, rect |-> Rect(0, 0, 0, 0), path |-> <<>>,
     env_path |-> <<>>, fs |-> <<>>, saved |-> FALSE, done |-> FALSE, out |-> <<>>,
     v |-> 0, kind |-> "", y |-> 0, ms |-> 0, tx |-> 0, ty |-> 0, ch |-> " "]

NoKeys == [ax |-> 0, shift_held |-> FALSE, dash_pressed |-> FALSE,
           jump_pressed |-> FALSE, jump_released |-> FALSE,
           crouch_held |-> FALSE, crouch_pressed |-> FALSE]

\* observations: history variables that record what the claims speak about
\*   pre        the player at the start of the running Game.update
\*   grid       the tilemap at the start of the running Game.update
\*   vel        the player of the running tick before Player.update moved it
\*   upd        the player right after Player.update of the running tick
\*   ran        the last step completed a Game.update (cleared by a reset)
\*   lethal     a take_damage call of this tick reported lethal
\*   press_age  -1, or the time simulated since the update that saw the last
\*              jump press
\*   late_press that press came while the player was airborne outside the
\*              coyote window (try_jump refused it)
\*   dash       the start_dash call of the running update, if any, with the
\*              player before and after it
\*   dash_hit   a horizontal collision stopped the player during the last dash
\*   jumped     try_jump succeeded in this tick
\*   air        a jump or a stomp bounce was executed and no Player.update
\*              since has hit the floor
\*   knocked    an enemy knocked the player back in this tick
\*   dmg        the take_damage calls of this tick, in order
\*   hits       the enemy contacts handled in this tick, in order
\*   sf         the set_form("big") calls on a small player of this tick
\*   core       a dash-core was collected in this session
\*   dash_age   -1, or the time simulated since the update that started the
\*              last dash (the sum of dt of the later updates)
\*   dash_gap   -1, or the dash_age of the dash before when the last one started
\*   dash_total the sum of dt of the updates in which the last dash was active
\*   slide      "none" | "sliding" (a crouch-slide on the ground with no
\*              directional input since it started) | "stopped" (vx has
\*              reached 0 for the first time in such a slide)
\*   slide_x0   the player's x at the start of the update that started it
\*   slide_dist the distance covered when the slide stopped
ObsInit(p, grid) ==
    [pre |-> p, grid |-> grid, vel |-> p, upd |-> p, ran |-> FALSE,
     jumped |-> FALSE, knocked |-> FALSE, dmg |-> <<>>, hits |-> <<>>, sf |-> <<>>,
     calls |-> <<>>, dash |-> <<>>, lethal |-> FALSE,
     press_age |-> -1, late_press |-> FALSE,
     core |-> FALSE, dash_age |-> -1, dash_gap |-> -1, dash_total |-> 0,
     dash_hit |-> FALSE, slide |-> "none", slide_x0 |-> 0, slide_dist |-> 0,
     air |-> FALSE]

(***************************** Game.reset ************************************)
\* the cells holding an enemy marker, in row-major order
Markers(rows) ==
    LET w == Len(rows[1])
        all == [k \in 1..(Len(rows) * w) |-> <<(k - 1) % w, (k - 1) \div w>>]
    IN  SelectSeq(all, LAMBDA c : Cell(rows, c[1], c[2]) = "G")

CountCodes(grid, codes) ==
    Cardinality({c \in (0..(GridW(grid) - 1)) \X (0..(GridH(grid) - 1)) :
                    Cell(grid, c[1], c[2]) \in codes})

\* reset that leaves the enemy markers in the grid
reset_keeps_markers(rows, dirs) ==
    LET ms == Markers(rows)
        p == set_form(NewPlayer(START_COL * TILE * PU + (TILE \div 2) * PU,
                                (Len(rows) - 1) * TILE * PU), "small", rows).p
    IN  [tilemap |-> rows,
         player |-> p,
         enemies |-> [i \in 1..Len(ms) |->
                         NewGoomba(ms[i][1] * TILE * PU + (TILE \div 2) * PU,
                                   (ms[i][2] + 1) * TILE * PU, dirs[i])],
         items |-> <<>>,
         coins_total |-> CountCodes(rows, {"C", "Q"}),
         coins_got |-> 0,
         time |-> 0,
         state |-> "RUN",
         last |-> [jp |-> FALSE, sh |-> FALSE, cr |-> FALSE]]

\* reset() on LEVEL = rows; dirs[i] is random.choice([-1, 1]) of the i-th Goomba
reset(rows, dirs) ==
    LET ms == Markers(rows)
        grid == [y \in 1..Len(rows) |->
                    [x \in 1..Len(rows[y]) |-> IF rows[y][x] = "G" THEN " " ELSE rows[y][x]]]
        p == set_form(NewPlayer(START_COL * TILE * PU + (TILE \div 2) * PU,
                                (Len(rows) - 1) * TILE * PU), "small", rows).p
    IN  [tilemap |-> grid,
         player |-> p,
         enemies |-> [i \in 1..Len(ms) |->
                         NewGoomba(ms[i][1] * TILE * PU + (TILE \div 2) * PU,
                                   (ms[i][2] + 1) * TILE * PU, dirs[i])],
         items |-> <<>>,
         coins_total |-> CountCodes(grid, {"C", "Q"}),
         coins_got |-> 0,
         time |-> 0,
         state |-> "RUN",
         last |-> [jp |-> FALSE, sh |-> FALSE, cr |-> FALSE]]

GoombaDirs(rows) == [1..Len(Markers(rows)) -> {-1, 1}]

GameInit(scens) ==
    /\ scen \in scens
    /\ dt \in Scenarios[scen].dts
    /\ \E dirs \in GoombaDirs(Scenarios[scen].rows) :
        \E g \in {reset(Scenarios[scen].rows, dirs)} :
            /\ tilemap = g.tilemap
            /\ player = g.player
            /\ enemies = g.enemies
            /\ items = g.items
            /\ coins_total = g.coins_total
            /\ coins_got = g.coins_got
            /\ time = g.time
            /\ state = g.state
            /\ last = g.last
            /\ obs = ObsInit(g.player, g.tilemap)
            /\ prev_player_rect = PlayerRect(g.player)
    /\ pc = "update"
    /\ keys = NoKeys
    /\ kb = {}
    /\ ticks = 0
    /\ changes = 0

Init == GameInit(1..Len(Scenarios)) /\ call = NoCall

(***************************** Game.update ************************************)
\* the keys dict built from the held keys kbd and the last-frame flags
KeysOf(kbd, lst) ==
    [ax |-> (IF "R" \in kbd THEN 1 ELSE 0) - (IF "L" \in kbd THEN 1 ELSE 0),
     shift_held |-> "S" \in kbd,
     dash_pressed |-> "S" \in kbd /\ ~lst.sh,
     jump_pressed |-> "J" \in kbd /\ ~lst.jp,
     jump_released |-> "J" \notin kbd /\ lst.jp,
     crouch_held |-> "C" \in kbd,
     crouch_pressed |-> "C" \in kbd /\ ~lst.cr]

\* the observations of the dash after a Player.update from pre to upd
ObsDash(o, vel, upd, d) ==
    LET started == upd.dash_t = DASH_TIME
        active == upd.dash_t > 0
        hit == vel.vx # 0 /\ upd.vx = 0
    IN  [o EXCEPT
            !.dash_gap = IF started /\ o.dash_age # -1 THEN o.dash_age + d
                         ELSE o.dash_gap,
            !.dash_age = IF started THEN 0
                         ELSE IF o.dash_age = -1 THEN -1 ELSE o.dash_age + d,
            !.dash_total = IF started THEN d
                           ELSE IF active THEN o.dash_total + d ELSE o.dash_total,
            !.dash_hit = IF started THEN hit
                         ELSE IF active THEN o.dash_hit \/ hit ELSE o.dash_hit]

\* the observations of the crouch-slide after a Player.update from pre to upd
ObsSlide(o, pre, vel, upd, k) ==
    LET started == upd.crouch_slide_t > pre.crouch_slide_t
        hit == vel.vx # 0 /\ upd.vx = 0
        broken == hit \/ ~upd.on_ground \/ o.knocked
    IN  IF started
        THEN [o EXCEPT !.slide = IF broken THEN "none" ELSE "sliding",
                       !.slide_x0 = pre.x, !.slide_dist = 0]
        ELSE IF o.slide # "sliding" THEN o
        ELSE IF broken \/ k.ax # 0 THEN [o EXCEPT !.slide = "none"]
        ELSE IF upd.vx = 0
        THEN [o EXCEPT !.slide = "stopped", !.slide_dist = Abs(upd.x - o.slide_x0)]
        ELSE o

\* lines 889-912: read the keyboard, build keys, Player.update
UpdatePlayer ==
    /\ pc = "update"
    /\ state = "RUN"
    /\ ticks < Scenarios[scen].frames
    /\ \E c \in Scenarios[scen].chords \cup {kb} :
        /\ c # kb => changes < MaxChanges
        /\ kb' = c
        /\ changes' = IF c # kb THEN changes + 1 ELSE changes
        /\ LET k == KeysOf(c, last)
               w0 == World(player, tilemap, items, coins_got)
           IN  \E vel \in {Player_velocity(w0, dt, k)}, w \in {Player_update(w0, dt, k)},
                  inp \in {Player_input(w0, dt, k)} :
               LET o == [obs EXCEPT !.pre = player, !.grid = tilemap, !.vel = vel,
                                    !.upd = w.p, !.ran = FALSE, !.jumped = FALSE,
                                    !.air = obs.air /\ ~w.p.on_ground,
                                    !.dmg = <<>>, !.hits = <<>>, !.sf = <<>>,
                                    !.calls = w.calls, !.lethal = FALSE,
                                    !.dash = IF DashTriggered(inp, k, tilemap)
                                             THEN <<[pre |-> inp, post |-> start_dash(inp)]>>
                                             ELSE <<>>,
                                    !.press_age = IF k.jump_pressed THEN 0
                                                  ELSE IF obs.press_age = -1 THEN -1
                                                  ELSE obs.press_age + dt]
               IN
               /\ keys' = k
               /\ last' = [jp |-> "J" \in c, sh |-> "S" \in c, cr |-> "C" \in c]
               /\ prev_player_rect' = PlayerRect(player)
               /\ player' = w.p
               /\ tilemap' = w.tilemap
               /\ items' = w.items
               /\ coins_got' = w.coins_got
               /\ obs' = [ObsSlide(ObsDash(o, vel, w.p, dt), player, vel, w.p, k)
                            EXCEPT !.knocked = FALSE]
    /\ pc' = "jump"
    /\ UNCHANGED call
    /\ UNCHANGED <<enemies, coins_total, time, state, scen, dt, ticks>>

\* line 913
UpdateJump ==
    /\ pc = "jump"
    /\ LET r == IF keys.jump_pressed THEN try_jump(player) ELSE [p |-> player, ok |-> FALSE]
       IN  /\ player' = r.p
           /\ obs' = [obs EXCEPT !.jumped = r.ok,
                                 !.air = obs.air \/ r.ok,
                                 !.late_press = IF keys.jump_pressed THEN ~r.ok
                                                ELSE obs.late_press]
    /\ pc' = "items"
    /\ UNCHANGED call
    /\ UNCHANGED <<tilemap, enemies, items, coins_total, coins_got, time, state, last,
                   keys, prev_player_rect, scen, dt, kb, ticks, changes>>

\* lines 915-938
UpdateItems ==
    /\ pc = "items"
    /\ \E st \in {PickupLoop([p |-> player, items |-> Items_update(items, dt, tilemap),
                              sf |-> obs.sf],
                             1, PlayerRect(player), tilemap)} :
           /\ player' = st.p
           /\ items' = SelectSeq(st.items, LAMBDA it : ~it.remove)
           /\ obs' = [obs EXCEPT !.sf = st.sf]
    /\ pc' = "enemies"
    /\ UNCHANGED call
    /\ UNCHANGED <<tilemap, enemies, coins_total, coins_got, time, state, last, keys,
                   prev_player_rect, scen, dt, kb, ticks, changes>>

\* lines 940-985
UpdateEnemies ==
    /\ pc = "enemies"
    /\ enemies' = SeparateEnemies(Enemies_update(enemies, dt, tilemap), 1)
    /\ pc' = "contacts"
    /\ UNCHANGED call
    /\ UNCHANGED <<tilemap, player, items, coins_total, coins_got, time, state, last,
                   keys, prev_player_rect, scen, dt, kb, ticks, changes, obs>>

\* lines 987-1023
UpdateContacts ==
    /\ pc = "contacts"
    /\ \E st \in {ContactLoop([p |-> player, enemies |-> enemies, state |-> state,
                               r |-> PlayerRect(player), done |-> FALSE,
                               dmg |-> obs.dmg, knocked |-> FALSE, hits |-> <<>>],
                              1, prev_player_rect, tilemap)} :
           /\ player' = st.p
           /\ enemies' = SelectSeq(st.enemies, LAMBDA e : ~e.remove)
           /\ state' = st.state
           /\ obs' = [obs EXCEPT !.dmg = st.dmg, !.knocked = st.knocked,
                                 !.hits = st.hits,
                                 !.air = obs.air \/ \E i \in 1..Len(st.hits) : st.hits[i].stomp,
                                 !.lethal = st.state = "DEAD"]
    /\ pc' = "tiles"
    /\ UNCHANGED call
    /\ UNCHANGED <<tilemap, items, coins_total, coins_got, time, last, keys,
                   prev_player_rect, scen, dt, kb, ticks, changes>>

\* lines 1025-1068
UpdateTiles ==
    /\ pc = "tiles"
    /\ \E r \in {PlayerRect(player)} :
       \E st \in {TileLoop([p |-> player, tilemap |-> tilemap, coins_got |-> coins_got,
                            state |-> state, done |-> FALSE, dmg |-> obs.dmg,
                            sf |-> obs.sf, core |-> obs.core],
                           tiles_in_aabb(tilemap, inflate(r, 8, 8)), 1, r)} :
           /\ player' = st.p
           /\ tilemap' = st.tilemap
           /\ coins_got' = st.coins_got
           /\ state' = IF st.p.y > (GridH(tilemap) * TILE + VOID_MARGIN) * PU
                       THEN "DEAD" ELSE st.state
           /\ obs' = [obs EXCEPT !.dmg = st.dmg, !.sf = st.sf, !.core = st.core,
                                 !.ran = TRUE,
                                 !.lethal = \E i \in 1..Len(st.dmg) : st.dmg[i].lethal]
    /\ time' = time + dt
    /\ ticks' = ticks + 1
    /\ pc' = "update"
    /\ UNCHANGED call
    /\ UNCHANGED <<enemies, items, coins_total, last, keys, prev_player_rect, scen, dt,
                   kb, changes>>

\* run, lines 1207-1211: SPACE goes down while the session is over
Reset ==
    /\ pc = "update"
    /\ state \in {"DEAD", "WIN"}
    /\ "J" \notin kb
    /\ changes < MaxChanges
    /\ kb' = kb \cup {"J"}
    /\ changes' = changes + 1
    /\ \E dirs \in GoombaDirs(Scenarios[scen].rows) :
        \E g \in {reset(Scenarios[scen].rows, dirs)} :
            /\ tilemap' = g.tilemap
            /\ player' = g.player
            /\ enemies' = g.enemies
            /\ items' = g.items
            /\ coins_total' = g.coins_total
            /\ coins_got' = g.coins_got
            /\ time' = g.time
            /\ state' = g.state
            /\ last' = g.last
            /\ obs' = ObsInit(g.player, g.tilemap)
    /\ UNCHANGED call
    /\ UNCHANGED <<pc, keys, prev_player_rect, scen, dt, ticks>>

Next ==
    \/ UpdatePlayer
    \/ UpdateJump
    \/ UpdateItems
    \/ UpdateEnemies
    \/ UpdateContacts
    \/ UpdateTiles
    \/ Reset

Spec == Init /\ [][Next]_vars

(***************************** calls outside a session ************************)
\* the functions of the tile grid and of level_io.py, called on their own:
\* the arguments are drawn from the sets below, one step per call
MaxCells == 4
MaxSlideV == 27     \* speeds of the drawn crouch-slide starts, in steps of 25 px/s
MaxFallV == 8       \* speeds of the drawn falls, in steps of 200 px/s

\* the grids of at most MaxCells cells whose rows have one positive length,
\* over a tile code, the blank and the two characters json.dump escapes
SaveGrids ==
    UNION {[1..s[1] -> [1..s[2] -> {"X", " ", "\"", "\\"}]] :
            s \in {t \in (1..MaxCells) \X (1..MaxCells) : t[1] * t[2] <= MaxCells}}
PathSet ==
    {<<"a", ".", "j", "s", "o", "n">>, <<"A", ".", "J", "S", "O", "N">>,
     <<"a", ".", "t", "x", "t">>, <<"a">>, DEFAULT_LEVEL_FILE}
EnvSet == {<<>>, <<"e", ".", "j", "s", "o", "n">>}

QueryGrids ==
    {<<<<"X", "X", "X">>, <<"X", "X", "X">>>>,
     <<<<"C", " ", "X">>, <<" ", "=", "|">>>>}
\* rects with their corner on, next to and away from the tile borders of
\* those grids
QueryRects ==
    LET edges == {-49, -48, -1, 0, 1, 47, 48, 49, 95, 96, 97, 143, 144, 145}
        sizes == {1, 36, 48, 52}
    IN  {Rect(l, t, w, h) : l \in edges, t \in edges, w \in sizes, h \in sizes}

\* signed speeds from two steps under the slide trigger speed to above the
\* speed at which a_req passes CROUCH_SLIDE_DECEL_BASE (967.5 px/s)
SlideSpeeds ==
    {sg * (CROUCH_SLIDE_TRIGGER_SPEED + k * 25 * S) : k \in -2..MaxSlideV, sg \in {-1, 1}}

PureInit ==
    /\ GameInit({1})
    /\ dt = 17
    /\ call \in
        {[NoCall EXCEPT !.fn = "tiles_in_aabb", !.grid = g, !.rect = r] :
            g \in QueryGrids, r \in QueryRects}
        \cup {[NoCall EXCEPT !.fn = f, !.grid = g, !.path = p, !.env_path = e] :
            f \in {"save_level"}, g \in SaveGrids, p \in PathSet, e \in EnvSet}
        \cup {[NoCall EXCEPT !.fn = f, !.path = p, !.env_path = e] :
            f \in {"load_level"}, p \in PathSet \cup {<<>>}, e \in EnvSet}
        \cup {[NoCall EXCEPT !.fn = "PU_slide", !.v = v] : v \in SlideSpeeds}
        \* an actor falling at v (up to MAX_FALL) with its feet y above the
        \* floor: on it, a part of a pixel, a pixel, less and more than a
        \* substep, and as far as one update reaches
        \cup {[NoCall EXCEPT !.fn = "fall", !.kind = k, !.v = v, !.y = y, !.ms = ms] :
                k \in {"player", "goomba", "mushroom"},
                v \in {Min(n * 200, MAX_FALL) * S : n \in 0..MaxFallV},
                y \in {0, 1, 50000, 99999, 100000, 100001, 730000, 800000, 1234567,
                       2640000, 2800000, 5279999, 5280000, 5400000},
                ms \in {17, 33}}
        \* the two callbacks on a grid of blocks and a gate, for a small and a
        \* big player left and right of the cell; hit_block also with
        \* coordinates one cell outside the grid
        \cup {[NoCall EXCEPT !.fn = "destroy_gate", !.grid = g, !.tx = tx, !.ty = ty] :
                g \in {<<<<"B", "Q", "S">>, <<"|", " ", "X">>>>},
                tx \in 0..2, ty \in 0..1}
        \cup {[NoCall EXCEPT !.fn = "hit_block", !.grid = g, !.tx = tx, !.ty = ty,
                             !.ch = ch, !.kind = f, !.v = x] :
                g \in {<<<<"B", "Q", "S">>, <<"|", " ", "X">>>>},
                tx \in -1..3, ty \in -1..2, ch \in {"B", "Q", "S", "|", " "},
                f \in {"small", "big"}, x \in {0, 3 * TILE * PU}}

game == <<tilemap, player, enemies, items, coins_total, coins_got, time, state, last,
          pc, keys, prev_player_rect, scen, dt, kb, ticks, changes, obs>>

Query ==
    /\ call.fn = "tiles_in_aabb" /\ ~call.done
    /\ call' = [call EXCEPT !.out = tiles_in_aabb(call.grid, call.rect), !.done = TRUE]
    /\ UNCHANGED game

\* save_level(grid, path); the next call loads the path
Save ==
    /\ call.fn = "save_level"
    /\ call' = [call EXCEPT !.fs = save_level(call.grid, call.path, call.fs),
                            !.saved = TRUE, !.fn = "load_level"]
    /\ UNCHANGED game

Load ==
    /\ call.fn = "load_level" /\ ~call.done
    /\ call' = [call EXCEPT !.out = load_level(call.path, call.env_path, call.fs),
                            !.done = TRUE]
    /\ UNCHANGED game

\* the input part of Player.update for a sprinting player on the ground that
\* moves at call.v when the crouch key goes down
Slide ==
    /\ call.fn = "PU_slide" /\ ~call.done
    /\ call' = [call EXCEPT
            !.out = Player_input(
                World([player EXCEPT !.vx = call.v, !.sprint = TRUE, !.on_ground = TRUE],
                      tilemap, items, coins_got),
                dt, [NoKeys EXCEPT !.crouch_held = TRUE, !.crouch_pressed = TRUE]),
            !.done = TRUE]
    /\ UNCHANGED game

\* one update of the actor call.kind that falls at call.v from call.y above
\* the floor of the level; out = the actor before and after the update and
\* the velocity of its vertical move
Fall ==
    /\ call.fn = "fall" /\ ~call.done
    /\ LET y0 == (GridH(tilemap) - 1) * TILE * PU - call.y
           moved(a, a1, vy) == [pre |-> a, post |-> a1, vy |-> vy]
           fall_p(w) == moved(w.p, Player_update(w, call.ms, NoKeys).p,
                              Player_velocity(w, call.ms, NoKeys).vy)
           fall_a(a, a1) ==
               moved(a, a1, clamp(a.vy + Dv(GRAVITY * S, call.ms), VY_MIN * S, MAX_FALL * S))
           fall_g(e) == fall_a(e, Goomba_update(e, call.ms, tilemap))
           fall_m(m) == fall_a(m, MushroomItem_update(m, call.ms, tilemap))
       IN  call' = [call EXCEPT
               !.out = IF call.kind = "player"
                       THEN fall_p(World([player EXCEPT !.y = y0, !.vy = call.v,
                                                        !.on_ground = FALSE],
                                         tilemap, items, coins_got))
                       ELSE IF call.kind = "goomba"
                       THEN fall_g([NewGoomba(player.x, y0, 1) EXCEPT !.vy = call.v])
                       ELSE fall_m([NewMushroom(player.x, y0, 1) EXCEPT
                                       !.state = "active", !.y = y0, !.vy = call.v,
                                       !.vx = MUSHROOM_SPEED * S]),
               !.done = TRUE]
    /\ UNCHANGED game

\* Game.destroy_gate(tx, ty) and Game.hit_block(tx, ty, ch, player) on the
\* grid call.grid; out = the world afterwards
Callback ==
    /\ call.fn \in {"destroy_gate", "hit_block"} /\ ~call.done
    /\ LET w == World([player EXCEPT !.form = call.kind, !.x = call.v],
                      call.grid, items, coins_got)
       IN  call' = [call EXCEPT
               !.out = IF call.fn = "destroy_gate"
                       THEN [w EXCEPT !.tilemap = destroy_gate(call.grid, call.tx, call.ty)]
                       ELSE hit_block(w, call.tx, call.ty, call.ch),
               !.done = TRUE]
    /\ UNCHANGED game

PureNext == Query \/ Save \/ Load \/ Slide \/ Fall \/ Callback

PureSpec == PureInit /\ [][PureNext]_vars

(***************************** properties *************************************)
\* a Game.update has just returned
TickEnd == pc = "update" /\ obs.ran

\* the player may jump: grounded or inside the coyote window
InWindow(p) == p.on_ground \/ p.since_ground <= COYOTE_TIME

\* the jump velocity of player p, in 1/100 px/s
JumpVelOf(p) == IF p.sprint THEN (JUMP_VEL * S * SPRINT_JUMP_MULT) \div 100 ELSE JUMP_VEL * S

\* C1 as stated: a press in a tick in which, after Player.update, the player is
\* grounded or inside the coyote window ends the tick with vy = JUMP_VEL (times
\* SPRINT_JUMP_MULT when sprinting), on_ground false and the jump buffer
\* cleared; a press outside the window does not change vy.
C1_AsStated ==
    /\ (TickEnd /\ keys.jump_pressed /\ InWindow(obs.upd))
        => /\ player.vy = JumpVelOf(obs.upd)
           /\ ~player.on_ground
           /\ player.jump_buf = 0
    /\ (pc = "items" /\ keys.jump_pressed /\ ~InWindow(obs.upd))
        => player.vy = obs.upd.vy

\* C1: a press in a tick in which, after Player.update, the player is grounded
\* or inside the coyote window ends the tick with on_ground false, the jump
\* buffer cleared and vy = JUMP_VEL (times SPRINT_JUMP_MULT when sprinting),
\* unless an enemy knocked the player back later in that tick, which leaves
\* vy = -KNOCK_VEL; a press outside the window does not change vy.
C1_Jump ==
    /\ (TickEnd /\ keys.jump_pressed /\ InWindow(obs.upd))
        => /\ IF obs.knocked THEN player.vy = -(KNOCK_VEL * S)
              ELSE player.vy = JumpVelOf(obs.upd)
           /\ ~player.on_ground
           /\ player.jump_buf = 0
    /\ (pc = "items" /\ keys.jump_pressed /\ ~InWindow(obs.upd))
        => player.vy = obs.upd.vy

\* a grounded press has ended its tick with the jump velocity
C1_Witness ==
    /\ TickEnd /\ keys.jump_pressed /\ obs.upd.on_ground
    /\ obs.jumped /\ ~obs.knocked
    /\ player.vy = JUMP_VEL * S

\* C2: a press made while the player is airborne outside the coyote window,
\* followed by a landing within JUMP_BUFFER of that press, is executed on
\* landing: the tick of the landing ends with the jump velocity although the
\* key was not pressed anew.
C2_BufferedJump ==
    (/\ TickEnd
     /\ ~obs.pre.on_ground /\ obs.upd.on_ground
     /\ ~keys.jump_pressed
     /\ obs.late_press /\ obs.press_age > 0 /\ obs.press_age <= JUMP_BUFFER)
    => player.vy = JumpVelOf(obs.upd)

\* a Player.update has just returned
AfterUpdate == pc = "jump"

\* the speed limit the specification gives a player that is not dashing, in
\* 1/100 px/s
SpeedLimit(p) ==
    (MAX_SPEED * S * (IF p.sprint THEN SPRINT_SPEED_MULT ELSE 100)
                   * (IF p.crouch /\ p.crouch_slide_t <= 0 THEN CROUCH_SPEED_MULT ELSE 100))
        \div 10000

DashStarted == obs.upd.dash_t = DASH_TIME
DashActive == obs.upd.dash_t > 0
DashEnded == obs.pre.dash_t > 0 /\ obs.upd.dash_t <= 0

C5_SpeedClamp ==
    (AfterUpdate /\ obs.upd.dash_t <= 0) => Abs(obs.upd.vx) <= SpeedLimit(obs.upd)

\* the update in which a dash ends has clamped a faster player to the limit
C5_Witness ==
    /\ AfterUpdate /\ DashEnded
    /\ Abs(obs.pre.vx) > SpeedLimit(obs.upd)
    /\ Abs(obs.upd.vx) = SpeedLimit(obs.upd)

\* C6: a crouch-slide started on flat unobstructed ground (its trigger speed
\* is at least CROUCH_SLIDE_TRIGGER_SPEED) and left without directional input
\* has carried the player at least CROUCH_SLIDE_MIN_DIST, measured from the
\* start of the update that started it, when vx first reaches 0.
C6_SlideDistance ==
    (AfterUpdate /\ obs.slide = "stopped") => obs.slide_dist >= CROUCH_SLIDE_MIN_DIST * PU

\* C7: when a Player.update starts with the player crouching and a solid,
\* gate, spike or goal tile overlapping the standing-height hitbox at the
\* player's position, the update leaves the player crouching with crouch
\* height, whether or not the crouch key is held.
C7_ForcedCrouch ==
    (/\ AfterUpdate
     /\ obs.pre.crouch
     /\ Overlaps(obs.grid, PlayerRectH(obs.pre, obs.pre.h_stand)))
    => (obs.upd.crouch /\ obs.upd.h = obs.upd.h_crouch)

\* C8: set_form("big") on a small player whose standing-big hitbox overlaps a
\* blocking tile while its crouched-big hitbox does not succeeds with form big,
\* crouch true and h = H_CROUCH_BIG; when neither hitbox fits it fails and
\* leaves form, crouch, h, h_stand and h_crouch as they were.
C8_GrowInCorridor ==
    \A i \in 1..Len(obs.sf) :
        LET c == obs.sf[i]
        IN  /\ (c.stand_hit /\ ~c.crouch_hit)
                => /\ c.ok
                   /\ c.post.form = "big"
                   /\ c.post.crouch
                   /\ c.post.h = H_CROUCH_BIG
            /\ (c.stand_hit /\ c.crouch_hit)
                => /\ ~c.ok
                   /\ c.post.form = c.pre.form
                   /\ c.post.crouch = c.pre.crouch
                   /\ c.post.h = c.pre.h
                   /\ c.post.h_stand = c.pre.h_stand
                   /\ c.post.h_crouch = c.pre.h_crouch

\* C9: take_damage on a big player with inv <= 0 sets form to small, leaves
\* inv >= 1.2 s and vy <= -260 px/s and reports non-lethal; on a small player
\* with inv <= 0 it reports lethal; with inv > 0 it reports non-lethal and
\* changes nothing of the player.
C9_TakeDamage ==
    \A i \in 1..Len(obs.dmg) :
        LET c == obs.dmg[i]
        IN  /\ (c.pre.form = "big" /\ c.pre.inv <= 0)
                => /\ c.post.form = "small"
                   /\ c.post.inv >= INV_ON_DAMAGE
                   /\ c.post.vy <= DAMAGE_KNOCK_VY * S
                   /\ ~c.lethal
            /\ (c.pre.form = "small" /\ c.pre.inv <= 0) => c.lethal
            /\ c.pre.inv > 0 => (~c.lethal /\ c.post = c.pre)

\* a tick in which take_damage hit a big player that was not invulnerable
C9_Witness ==
    \E i \in 1..Len(obs.dmg) :
        /\ obs.dmg[i].pre.form = "big" /\ obs.dmg[i].pre.inv <= 0
        /\ obs.dmg[i].post.form = "small"

\* C10: a tick in which take_damage reported lethal, from an enemy or from a
\* spike, ends with the session state dead, never won.
C10_LethalEndsDead == (TickEnd /\ obs.lethal) => state = "DEAD"

\* C11: whenever the stomp condition holds for a live enemy overlapping the
\* player, the contact squishes that enemy, calls no take_damage, leaves the
\* player's form and the session state as they were.
C11_Stomp ==
    \A i \in 1..Len(obs.hits) :
        obs.hits[i].stomp =>
            /\ obs.hits[i].e.alive /\ ~obs.hits[i].e1.alive
            /\ obs.hits[i].e1.squish_timer = GOOMBA_SQUISH_TIME
            /\ obs.hits[i].ndmg1 = obs.hits[i].ndmg0
            /\ obs.hits[i].post.form = obs.hits[i].pre.form
            /\ obs.hits[i].state1 = obs.hits[i].state0

\* a stomp on an enemy whose rect overlapped the player from the side: the
\* player's bottom was below the enemy's top and the player's centre beside
\* the enemy
C11_Witness ==
    \E i \in 1..Len(obs.hits) :
        /\ obs.hits[i].stomp
        /\ Bottom(obs.hits[i].r) > obs.hits[i].er.t
        /\ \/ obs.hits[i].pre.x < obs.hits[i].er.l * PU
           \/ obs.hits[i].pre.x > Right(obs.hits[i].er) * PU

\* the player's rect of the running tick after the horizontal step of
\* Player.update and before its collisions (r of line 457)
MovedRect == PlayerRect([obs.vel EXCEPT !.x = obs.vel.x + obs.vel.vx * dt])

\* rects a and b overlap or touch
Touching(a, b) ==
    /\ a.l <= Right(b) /\ b.l <= Right(a)
    /\ a.t <= Bottom(b) /\ b.t <= Bottom(a)

\* the cells of the grid
Cells(grid) == (0..(GridW(grid) - 1)) \X (0..(GridH(grid) - 1))

\* C12: a Player.update changes a gate cell only to empty and only if the
\* player is dashing and its hitbox, after the horizontal step, overlaps or
\* touches that cell; destroy_gate changes no other cell.
C12_GateExact ==
    /\ AfterUpdate =>
        \A c \in Cells(tilemap) :
            (Cell(obs.grid, c[1], c[2]) = "|" /\ Cell(tilemap, c[1], c[2]) # "|")
                => /\ Cell(tilemap, c[1], c[2]) = " "
                   /\ obs.upd.dash_t > 0
                   /\ Touching(MovedRect, TileRect(c[1], c[2]))
    /\ \A c \in Cells(tilemap), d \in Cells(tilemap) :
            Cell(destroy_gate(tilemap, c[1], c[2]), d[1], d[2]) =
                IF d = c /\ Cell(tilemap, d[1], d[2]) = "|" THEN " "
                ELSE Cell(tilemap, d[1], d[2])

\* C13: when the horizontal step of a dashing player brings its hitbox into
\* a gate tile and no solid tile is in contact, the Player.update leaves that
\* gate cell empty, vx = dash_dir * DASH_SPEED and x where the step put it.
C13_DashThroughGate ==
    AfterUpdate =>
        \A c \in Cells(tilemap) :
            (/\ obs.upd.dash_t > 0
             /\ Cell(obs.grid, c[1], c[2]) = "|"
             /\ colliderect(MovedRect, TileRect(c[1], c[2]))
             /\ \A d \in Cells(tilemap) :
                    solid(Cell(obs.grid, d[1], d[2]))
                        => ~colliderect(MovedRect, TileRect(d[1], d[2])))
            => /\ Cell(tilemap, c[1], c[2]) = " "
               /\ obs.upd.vx = obs.upd.dash_dir * DASH_SPEED * S
               /\ obs.upd.x = obs.vel.x + obs.vel.vx * dt


\* the direction of a velocity or of an input axis: 1, -1 or 0
Dir(v) == IF v > 0 THEN 1 ELSE IF v < 0 THEN -1 ELSE 0

\* the conditions of a skid in the Player.update just run: on the ground,
\* sprinting and not dashing in this update, no skid left over, fast enough,
\* and an input against the movement
SkidCond ==
    /\ obs.pre.on_ground
    /\ obs.vel.sprint
    /\ obs.vel.dash_t <= 0
    /\ RunDown(obs.pre.skid_t, dt) <= 0
    /\ Abs(obs.pre.vx) >= SKID_TRIGGER_SPEED
    /\ keys.ax # 0
    /\ keys.ax = -Dir(obs.pre.vx)

C15_Breakable ==
    \A i \in 1..Len(obs.calls) :
        LET c == obs.calls[i] IN
        (c.ch = "S" /\ Cell(c.pre.tilemap, c.tx, c.ty) = "S") =>
            /\ Cell(c.post.tilemap, c.tx, c.ty) = " " <=> c.pre.p.form = "big"
            /\ Cell(c.post.tilemap, c.tx, c.ty) \in {" ", "S"}
            /\ c.pre.p.form = "small" =>
                /\ c.post.tilemap = c.pre.tilemap
                /\ c.post.items = c.pre.items
                /\ c.post.coins_got = c.pre.coins_got
                /\ c.post.p.coins = c.pre.p.coins

\* a big player's hit on a breakable block
C15_Witness ==
    \E i \in 1..Len(obs.calls) :
        /\ obs.calls[i].ch = "S" /\ obs.calls[i].pre.p.form = "big"
        /\ Cell(obs.calls[i].pre.tilemap, obs.calls[i].tx, obs.calls[i].ty) = "S"

\* C16: a hit_block call on an item-block makes the cell solid ground and
\* appends exactly one mushroom to the items: centred on the block, emerging
\* from inside the block up to its top, and travelling away from the x the
\* player has at the call; another hit_block on the same cell spawns nothing.
C16_ItemBlock ==
    \A i \in 1..Len(obs.calls) :
        LET c == obs.calls[i]
            centre == c.tx * TILE * PU + (TILE * PU) \div 2
            top == c.ty * TILE * PU
            m == c.post.items[Len(c.post.items)]
        IN  (c.ch = "B" /\ Cell(c.pre.tilemap, c.tx, c.ty) = "B") =>
                /\ c.post.tilemap = SetCell(c.pre.tilemap, c.tx, c.ty, "X")
                /\ Len(c.post.items) = Len(c.pre.items) + 1
                /\ SubSeq(c.post.items, 1, Len(c.pre.items)) = c.pre.items
                /\ m.x = centre /\ m.target_y = top /\ m.state = "emerging"
                /\ m.y = top + MUSHROOM_SIZE * PU /\ ~m.remove
                /\ c.pre.p.x > centre => m.direction = -1
                /\ c.pre.p.x < centre => m.direction = 1
                /\ m.direction \in {-1, 1}
                /\ \A ch \in {"B", "S", "Q", "X"} :
                        hit_block(c.post, c.tx, c.ty, ch).items = c.post.items

\* an item-block hit by a player left of its centre
C16_Witness ==
    \E i \in 1..Len(obs.calls) :
        /\ obs.calls[i].ch = "B"
        /\ Cell(obs.calls[i].pre.tilemap, obs.calls[i].tx, obs.calls[i].ty) = "B"
        /\ obs.calls[i].pre.p.x < obs.calls[i].tx * TILE * PU + (TILE * PU) \div 2

\* C17: in every state of a session coins_got = player.coins, and coins_got
\* plus the coin tiles and coin-blocks still in the grid is coins_total.
C17_Coins ==
    /\ coins_got = player.coins
    /\ coins_got + CountCodes(tilemap, {"C"}) + CountCodes(tilemap, {"Q"}) = coins_total

\* both the coin tile and the coin-block of a level have been taken
C17_Witness ==
    /\ coins_got = 2
    /\ CountCodes(tilemap, {"C", "Q"}) = 0
    /\ \E i \in 1..Len(obs.calls) : obs.calls[i].ch = "Q"

\* the cell changes a session makes: item-block and coin-block to ground,
\* breakable, gate, coin, dash-core and mushroom-spawn to empty
GridChanges ==
    {<<"B", "X">>, <<"Q", "X">>, <<"S", " ">>, <<"|", " ">>,
     <<"C", " ">>, <<"D", " ">>, <<"M", " ">>}

\* C18: the steps of MushroomItem.update and Goomba.update leave the grid
\* alone; a Player.update changes a cell only by destroy_gate (a gate, while
\* dashing) or by one of its hit_block calls; and every cell change of a
\* session is one of GridChanges, so ground, platform, spike and goal cells
\* never change.
C18_GridWrites ==
    [][\/ pc = "update" /\ state # "RUN"
       \/ /\ pc \in {"items", "enemies"} => tilemap' = tilemap
          /\ GridW(tilemap') = GridW(tilemap) /\ GridH(tilemap') = GridH(tilemap)
          /\ \A c \in Cells(tilemap) :
                Cell(tilemap', c[1], c[2]) # Cell(tilemap, c[1], c[2]) =>
                    /\ <<Cell(tilemap, c[1], c[2]), Cell(tilemap', c[1], c[2])>>
                            \in GridChanges
                    /\ pc = "update" =>
                        \/ Cell(tilemap, c[1], c[2]) = "|" /\ player'.dash_t > 0
                        \/ \E i \in 1..Len(obs'.calls) :
                            /\ obs'.calls[i].tx = c[1] /\ obs'.calls[i].ty = c[2]
                            /\ obs'.calls[i].ch = Cell(tilemap, c[1], c[2])
                            /\ obs'.calls[i].ch \in {"B", "Q", "S"}]_vars

\* a Player.update whose hit_block call has changed the grid
C18_Witness == AfterUpdate /\ tilemap # obs.grid /\ Len(obs.calls) > 0

\* C19: tiles_in_aabb(grid, rect) yields exactly the triples of the non-empty
\* cells of the grid whose square overlaps rect, each of them once: no cell
\* that only touches rect or lies outside it, and nothing for a rect that
\* lies outside the grid.
C19_TilesExact ==
    (call.fn = "tiles_in_aabb" /\ call.done) =>
        /\ Range(call.out) =
            {<<c[1], c[2], Cell(call.grid, c[1], c[2])>> :
                c \in {d \in Cells(call.grid) :
                        /\ Cell(call.grid, d[1], d[2]) # " "
                        /\ colliderect(call.rect, TileRect(d[1], d[2]))}}
        /\ \A i, j \in 1..Len(call.out) : i # j => call.out[i] # call.out[j]

\* C20: save_level(grid, path) followed by load_level(path) returns the rows
\* of the grid, for every grid whose rows have one positive length.
C20_RoundTrip ==
    (call.fn = "load_level" /\ call.saved /\ call.done) => call.out = call.grid

\* C21: right after start_dash the player has dash_t = DASH_TIME,
\* dash_cd = DASH_COOLDOWN, vx = facing * DASH_SPEED, sprint false and no
\* upward velocity (vy >= 0).
C21_StartDash ==
    \A i \in 1..Len(obs.dash) :
        /\ obs.dash[i].post.dash_t = DASH_TIME
        /\ obs.dash[i].post.dash_cd = DASH_COOLDOWN
        /\ obs.dash[i].post.vx = obs.dash[i].pre.facing * DASH_SPEED * S
        /\ ~obs.dash[i].post.sprint
        /\ obs.dash[i].post.vy >= 0

\* C22: in every Player.update in which the slide timer is running the
\* player is crouched at crouch height, and the update takes vx exactly
\* crouch_slide_decel * dt nearer to 0, to exactly 0 at the end and from 0
\* nowhere, whatever the directional input.
C22_Slide ==
    (AfterUpdate /\ obs.upd.crouch_slide_t > 0) =>
        /\ obs.upd.crouch
        /\ obs.upd.h = obs.upd.h_crouch
        /\ LET step == Dv(obs.upd.crouch_slide_decel, dt)
           IN  obs.vel.vx = IF Abs(obs.pre.vx) <= step THEN 0
                            ELSE obs.pre.vx - copysign(step, obs.pre.vx)

\* C23: a crouch-slide that starts at speed v0 >= CROUCH_SLIDE_TRIGGER_SPEED
\* gets crouch_slide_decel = min(CROUCH_SLIDE_DECEL_BASE, v0^2 / (2 *
\* CROUCH_SLIDE_MIN_DIST)) and crouch_slide_t = max(CROUCH_SLIDE_TIME_BASE,
\* v0 / crouch_slide_decel), so that v0^2 / (2 * crouch_slide_decel) >=
\* CROUCH_SLIDE_MIN_DIST and crouch_slide_t >= v0 / crouch_slide_decel (the
\* timer in whole ms, the deceleration in whole 1/100 px/s^2, w = v0 in
\* 1/10 px/s).
C23_SlideStart ==
    (call.fn = "PU_slide" /\ call.done /\ Abs(call.v) >= CROUCH_SLIDE_TRIGGER_SPEED) =>
        LET w == Abs(call.v) \div 10
            d == call.out.crouch_slide_decel
            t == call.out.crouch_slide_t
        IN  /\ d <= CROUCH_SLIDE_DECEL_BASE * S
            /\ d < CROUCH_SLIDE_DECEL_BASE * S => w * w < 2 * CROUCH_SLIDE_MIN_DIST * (d + 1)
            /\ w * w >= 2 * CROUCH_SLIDE_MIN_DIST * d
            /\ t >= CROUCH_SLIDE_TIME_BASE
            /\ t > CROUCH_SLIDE_TIME_BASE => t * d <= 1000 * Abs(call.v)
            /\ (t + 1) * d > 1000 * Abs(call.v)

C23_Witness ==
    /\ call.fn = "PU_slide" /\ call.done
    /\ Abs(call.v) >= CROUCH_SLIDE_TRIGGER_SPEED
    /\ call.out.crouch_slide_decel = CROUCH_SLIDE_DECEL_BASE * S
    /\ call.out.crouch_slide_t = CROUCH_SLIDE_TIME_BASE
    /\ call.out.crouch /\ call.out.crouch_slide_dir = -1

\* C24: a contact squishes the enemy as a stomp only if the player's bottom
\* at the start of the tick was at or above the enemy's top, the player moves
\* downward (vy > 0) and the player's bottom has reached the enemy's top.
C24_StompOnly ==
    \A i \in 1..Len(obs.hits) :
        (obs.hits[i].stomp /\ ~obs.hits[i].e1.alive) =>
            /\ Bottom(prev_player_rect) <= obs.hits[i].er.t
            /\ obs.hits[i].pre.vy > 0
            /\ Bottom(obs.hits[i].r) >= obs.hits[i].er.t

\* C25: a contact with a live enemy that is no stomp removes the enemy and
\* leaves the player's form, inv and the session state alone if the player
\* is dashing; changes neither the enemy nor the player if the player is not
\* dashing and inv > 0; calls take_damage only otherwise, and for a player
\* that is big at its first contact of a tick at most once in that tick.
C25_Contact ==
    \A i \in 1..Len(obs.hits) :
        LET c == obs.hits[i]
        IN  ~c.stomp =>
                /\ c.pre.dash_t > 0 =>
                    /\ c.e1.remove
                    /\ c.post.form = c.pre.form /\ c.post.inv = c.pre.inv
                    /\ c.state1 = c.state0 /\ c.ndmg1 = c.ndmg0
                /\ (c.pre.dash_t <= 0 /\ c.pre.inv > 0) =>
                    c.e1 = c.e /\ c.post = c.pre /\ c.ndmg1 = c.ndmg0
                /\ c.ndmg1 # c.ndmg0 =>
                    /\ c.pre.dash_t <= 0 /\ c.pre.inv <= 0
                    /\ c.ndmg1 = c.ndmg0 + 1
                    /\ \A j \in 1..(i - 1) :
                        obs.hits[j].ndmg1 # obs.hits[j].ndmg0 => obs.hits[1].pre.form # "big"
                /\ (c.pre.dash_t <= 0 /\ c.pre.inv <= 0) => c.ndmg1 = c.ndmg0 + 1

\* a tick with two contacts: the first damages the big player, the second
\* meets the player invulnerable and changes nothing
C25_Witness ==
    /\ Len(obs.hits) >= 2
    /\ ~obs.hits[1].stomp /\ obs.hits[1].pre.form = "big"
    /\ obs.hits[1].ndmg1 = obs.hits[1].ndmg0 + 1
    /\ ~obs.hits[2].stomp /\ obs.hits[2].pre.dash_t <= 0 /\ obs.hits[2].pre.inv > 0
    /\ obs.hits[2].post = obs.hits[2].pre /\ obs.hits[2].e1 = obs.hits[2].e

C27_Sprint ==
    (AfterUpdate /\ obs.upd.sprint) =>
        keys.shift_held /\ obs.upd.dash_t <= 0 /\ ~obs.upd.crouch

\* an update that ends sprinting above the walking speed
C27_Witness ==
    /\ AfterUpdate /\ obs.upd.sprint /\ obs.pre.sprint
    /\ Abs(obs.upd.vx) > MAX_SPEED * S

\* C28: every substep of a vertical move is shorter than TILE / 6, and an
\* update never takes a player, a Goomba or a mushroom whose bottom is at or
\* above the top of the solid tile under the middle of its hitbox to a
\* bottom below that top, at any fall speed up to MAX_FALL.
C28_NoTunnel ==
    (call.fn = "fall" /\ call.done) =>
        LET top == (GridH(tilemap) - 1) * TILE
            size == IF call.kind = "goomba" THEN GOOMBA_SIZE ELSE MUSHROOM_SIZE
            rect(a) == IF call.kind = "player" THEN PlayerRect(a)
                       ELSE ActorRect(a.x, a.y, size, size)
            total_dy == call.out.vy * call.ms
            under(r) == solid(Cell(tilemap, (r.l + r.w \div 2) \div TILE, top \div TILE))
        IN  /\ 6 * Abs(TDiv(total_dy, SubSteps(total_dy))) < TILE * PU
            /\ (Bottom(rect(call.out.pre)) <= top /\ under(rect(call.out.post))) =>
                    Bottom(rect(call.out.post)) <= top

\* a player that falls at MAX_FALL from more than a substep above the floor
\* and ends the update standing on it
C28_Witness ==
    /\ call.fn = "fall" /\ call.done /\ call.kind = "player"
    /\ call.v = MAX_FALL * S /\ call.y > (TILE \div 6) * PU
    /\ SubSteps(call.out.vy * call.ms) > 1
    /\ call.out.post.y = (GridH(tilemap) - 1) * TILE * PU
    /\ call.out.post.on_ground /\ call.out.post.vy = 0

\* C29: destroy_gate changes the grid only if the target cell holds a gate
\* and hit_block only if it holds the code passed in; with another code in
\* the cell or coordinates outside the grid hit_block leaves the grid, the
\* item list and the coin counts as they were.
C29_Callbacks ==
    LET in_range == /\ 0 <= call.tx /\ call.tx < GridW(call.grid)
                    /\ 0 <= call.ty /\ call.ty < GridH(call.grid)
        expected == IF call.fn = "destroy_gate" THEN "|" ELSE call.ch
    IN  (call.fn \in {"destroy_gate", "hit_block"} /\ call.done) =>
            /\ call.out.tilemap # call.grid =>
                    in_range /\ Cell(call.grid, call.tx, call.ty) = expected
            /\ (/\ call.fn = "hit_block"
                /\ ~in_range \/ Cell(call.grid, call.tx, call.ty) # call.ch) =>
                    /\ call.out.tilemap = call.grid
                    /\ call.out.items = items
                    /\ call.out.coins_got = coins_got
                    /\ call.out.p.coins = player.coins

\* hit_block called for a coin-block on the cell of the item-block: nothing
\* changes
C29_Witness ==
    /\ call.fn = "hit_block" /\ call.done
    /\ call.tx = 0 /\ call.ty = 0 /\ call.ch = "Q"
    /\ Cell(call.grid, 0, 0) = "B"
    /\ call.out.tilemap = call.grid /\ call.out.items = <<>>

\* C30: a stomped Goomba is not alive and has zero velocity; every tick
\* takes dt off its squish timer of 0.35 s, and it is out of the enemy list
\* from the tick in which the timer runs out; while squished it is no part
\* of a contact (it does not damage the player, is not stomped and not hit
\* by a dash again, whether the player dashes or not) and the contacts of a
\* tick end as they would without it; no Goomba of a session goes back from
\* squished to alive.
C30_Squished ==
    /\ [](/\ \A i \in 1..Len(enemies) :
                /\ ~enemies[i].alive =>
                    /\ enemies[i].vx = 0 /\ enemies[i].vy = 0
                    /\ enemies[i].squish_timer <= GOOMBA_SQUISH_TIME
                /\ pc # "contacts" =>
                    /\ ~enemies[i].remove
                    /\ ~enemies[i].alive => enemies[i].squish_timer > 0
          /\ \A i \in 1..Len(obs.hits) : obs.hits[i].e.alive /\ ~obs.hits[i].e.remove)
    /\ [][LET squished(e) == ~e.alive /\ ~e.remove
              alive(es) == {i \in 1..Len(es) : es[i].alive}
              contacts(p, es) ==
                  ContactLoop([p |-> p, enemies |-> es, state |-> state,
                               r |-> PlayerRect(p), done |-> FALSE, dmg |-> obs.dmg,
                               knocked |-> FALSE, hits |-> <<>>],
                              1, prev_player_rect, tilemap)
              same(st) == st.p = player' /\ st.state = state'
              kept(st) == \A i \in 1..Len(enemies) :
                              squished(enemies[i]) => st.enemies[i] = enemies[i]
          IN  /\ pc = "enemies" =>
                    /\ Len(enemies') = Len(enemies)
                    /\ \A i \in 1..Len(enemies) :
                        squished(enemies[i]) =>
                            enemies'[i] =
                                [enemies[i] EXCEPT
                                    !.squish_timer = enemies[i].squish_timer - dt,
                                    !.remove = (enemies[i].squish_timer - dt <= 0)]
              /\ pc = "contacts" =>
                    /\ SelectSeq(enemies, squished) =
                           SelectSeq(enemies', LAMBDA e : ~e.alive /\ e.squish_timer
                                                              < GOOMBA_SQUISH_TIME)
                    /\ same(contacts(player, SelectSeq(enemies, LAMBDA e : e.alive)))
                    /\ kept(contacts([player EXCEPT !.dash_t = DASH_TIME], enemies))
              /\ (pc # "update" \/ pc' # "update") =>
                    /\ Cardinality(alive(enemies')) <= Cardinality(alive(enemies))
                    /\ Len(enemies') = Len(enemies) =>
                            alive(enemies') \subseteq alive(enemies)]_vars

\* a squished Goomba under the feet of the player, one tick before its timer
\* runs out
C30_Witness ==
    /\ pc = "contacts"
    /\ \E i \in 1..Len(enemies) :
        /\ ~enemies[i].alive /\ ~enemies[i].remove
        /\ enemies[i].squish_timer <= dt
        /\ colliderect(PlayerRect(player), GoombaRect(enemies[i]))

\* C31: when the rects of two live Goombas overlap after their updates and
\* the horizontal overlap is not the larger one, the separation moves each
\* of them half the horizontal overlap away from the other, their rects no
\* longer overlap and each one's vx is negated; when the vertical overlap is
\* the smaller one, each is moved half the vertical overlap away from the
\* other and vx and vy stay as they were (sessions with two Goombas).
C31_Separation ==
    pc = "enemies" /\ Len(enemies) = 2 =>
        LET sep(es0, es1, ra, rb) ==
                LET ox == Min(Right(ra), Right(rb)) - Max(ra.l, rb.l)
                    oy == Min(Bottom(ra), Bottom(rb)) - Max(ra.t, rb.t)
                    \* enemy i has moved by 2 * half = d pixels away from enemy j
                    away(c0, c1, o0, d) ==
                        /\ 2 * Abs(c1 - c0) = d * PU
                        /\ IF c0 < o0 THEN c1 < c0 ELSE c1 > c0
                IN  (\A i \in 1..2 : es0[i].alive /\ ~es0[i].remove) /\ colliderect(ra, rb) =>
                        IF ox <= oy
                        THEN /\ \A i \in 1..2 :
                                  /\ away(es0[i].x, es1[i].x, es0[3 - i].x, ox)
                                  /\ es1[i].vx = -es0[i].vx
                             /\ ~colliderect(GoombaRect(es1[1]), GoombaRect(es1[2]))
                        ELSE \A i \in 1..2 :
                                  /\ away(es0[i].y, es1[i].y, es0[3 - i].y, oy)
                                  /\ es1[i].vx = es0[i].vx /\ es1[i].vy = es0[i].vy
            upd(es0) == sep(es0, SeparateEnemies(es0, 1), GoombaRect(es0[1]), GoombaRect(es0[2]))
        IN  upd(Enemies_update(enemies, dt, tilemap))

\* C32: a Player.update with no directional input of a player that is on the
\* ground, not dashing and not in a crouch-slide leaves vx at 0 or with the
\* sign it had before, and leaves vx = 0 at 0 (vx is read before the move,
\* which can only stop the player).
C32_Friction ==
    /\ AfterUpdate
    /\ keys.ax = 0
    /\ obs.pre.on_ground
    /\ obs.vel.dash_t <= 0
    /\ obs.vel.crouch_slide_t <= 0
    => /\ obs.vel.vx = 0 \/ Dir(obs.vel.vx) = Dir(obs.pre.vx)
       /\ obs.pre.vx = 0 => obs.vel.vx = 0

\* C33: a player that stands on a solid floor tile (landed, at rest, a solid
\* tile under its feet) and receives no input is grounded at the end of the
\* next Player.update too: on_ground is true and since_ground is 0.
C33_StaysGrounded ==
    LET r == PlayerRect(obs.pre)
        ty == Bottom(r) \div TILE
    IN  /\ AfterUpdate
        /\ keys = NoKeys
        /\ obs.pre.on_ground /\ obs.pre.since_ground = 0
        /\ obs.pre.vx = 0 /\ obs.pre.vy = 0
        /\ obs.pre.y % (TILE * PU) = 0
        /\ obs.grid = tilemap
        /\ ty < GridH(obs.grid)
        /\ \E tx \in Max(0, (r.l + 4) \div TILE)..Min(GridW(obs.grid) - 1, (Right(r) - 5) \div TILE) :
               solid(Cell(obs.grid, tx, ty))
        => obs.upd.on_ground /\ obs.upd.since_ground = 0

\* C34: at the end of every session tick the player's hitbox overlaps no
\* solid tile, and no gate tile unless the player is dashing.
C34_Clear ==
    TickEnd =>
        \A ty \in 0..(GridH(tilemap) - 1) : \A tx \in 0..(GridW(tilemap) - 1) :
            colliderect(PlayerRect(player), TileRect(tx, ty)) =>
                /\ ~solid(Cell(tilemap, tx, ty))
                /\ Cell(tilemap, tx, ty) = "|" => player.dash_t > 0

\* C35: starting a dash never shortens the remaining invulnerability: inv
\* right after start_dash is at least inv right before it.
C35_DashKeepsInv ==
    \A i \in 1..Len(obs.dash) : obs.dash[i].post.inv >= obs.dash[i].pre.inv

\* C36: once the session is dead or won a frame changes nothing of the
\* session (player, enemies, items, grid, coin counts, elapsed time and
\* state stay as they are) unless it is a reset, and a reset yields a
\* running session with coins_got = 0, time = 0, a small uncrouched player
\* without dash, and a grid without enemy marker.
C36_Over ==
    [][(pc = "update" /\ state \in {"DEAD", "WIN"}) =>
          \/ UNCHANGED <<player, enemies, items, tilemap, coins_total, coins_got, time, state>>
          \/ /\ state' = "RUN"
             /\ coins_got' = 0
             /\ time' = 0
             /\ player'.form = "small" /\ ~player'.crouch
             /\ player'.h = H_STAND /\ player'.h_stand = H_STAND /\ player'.h_crouch = H_CROUCH
             /\ ~player'.dash_unlocked /\ player'.dash_t = 0 /\ player'.dash_cd = 0
             /\ CountCodes(tilemap', {"G"}) = 0
             /\ Len(enemies') = CountCodes(Scenarios[scen].rows, {"G"})]_vars

\* a session that was reset after some frames
C36_Witness == pc = "update" /\ state = "RUN" /\ ticks > 0 /\ time = 0


\* C37: after a jump or a stomp bounce was executed, no jump is executed
\* until a Player.update has hit the floor, whatever is pressed meanwhile.
C37_NoAirJump ==
    [][(pc = "jump" /\ obs.air) => ~obs'.jumped]_vars

\* a jump press in the air after a jump or a stomp bounce, refused
C37_Witness ==
    pc = "items" /\ obs.air /\ keys.jump_pressed /\ player.jump_buf > 0 /\ ~obs.jumped

\* C38: in every reachable state the player's hitbox dimensions agree with
\* its form and its crouch flag: (h_stand, h_crouch) is (H_STAND, H_CROUCH)
\* when small and (H_STAND_BIG, H_CROUCH_BIG) when big, and h is h_crouch
\* when crouching and h_stand otherwise.
C38_Hitbox ==
    \A p \in {player, obs.pre, obs.vel, obs.upd} :
        /\ p.form \in {"small", "big"}
        /\ <<p.h_stand, p.h_crouch>> = IF p.form = "small" THEN <<H_STAND, H_CROUCH>>
                                       ELSE <<H_STAND_BIG, H_CROUCH_BIG>>
        /\ p.h = IF p.crouch THEN p.h_crouch ELSE p.h_stand

\* a big player that crouched by key, or that set_form put into a crouch
C38_Witness ==
    /\ TickEnd
    /\ player.form = "big" /\ player.crouch /\ player.h = H_CROUCH_BIG
    /\ keys.crouch_pressed \/ Len(obs.sf) > 0


\* C39: a live Goomba that stands on solid floor (at rest on the top of a
\* solid tile, clear of every solid tile) and is still alive after the
\* enemy updates and the enemy-enemy separation of the tick overlaps no
\* solid tile then, and its bottom is not below the top of that floor
\* unless no solid tile of the floor row is under it any more.
C39_OnFloor ==
    [][pc = "enemies" =>
          \A i \in 1..Len(enemies) :
              LET e0 == enemies[i]
                  e1 == enemies'[i]
                  ty == e0.y \div (TILE * PU)
                  hits(r) == \E y \in 0..(GridH(tilemap) - 1) : \E x \in 0..(GridW(tilemap) - 1) :
                                 solid(Cell(tilemap, x, y)) /\ colliderect(r, TileRect(x, y))
                  under(r) == \E x \in Max(0, r.l \div TILE)..Min(GridW(tilemap) - 1, (Right(r) - 1) \div TILE) :
                                 solid(Cell(tilemap, x, ty))
              IN  /\ e0.alive /\ ~e0.remove /\ e0.vy = 0
                  /\ e0.y % (TILE * PU) = 0 /\ ty < GridH(tilemap)
                  /\ under(GoombaRect(e0)) /\ ~hits(GoombaRect(e0))
                  /\ e1.alive /\ ~e1.remove
                  => /\ ~hits(GoombaRect(e1))
                     /\ under(GoombaRect(e1)) => Bottom(GoombaRect(e1)) <= ty * TILE]_vars

=============================================================================
